---- MODULE Spec2Model ----
(***************************************************************************)
(* A model of weechess: the transposition table of the engine              *)
(* (weechess-engine/src/searcher.rs), the iterative search and its         *)
(* threads, the UCI client loop (weechess-engine/src/uci.rs) and the move  *)
(* generator of the core (weechess-core/src).                              *)
(*                                                                         *)
(* The module holds several specifications over one set of variables.      *)
(* Each specification drives its own variables and leaves the others at    *)
(* their initial values.                                                   *)
(***************************************************************************)
EXTENDS Integers, Sequences, FiniteSets, TLC

VARIABLES
    tables,      \* TranspositionTableAccess.tables: shard -> TranspositionTable
    rw,          \* the RwLock of every shard: [writer, readers]
    th,          \* table client threads: position inside insert / find
    lin,         \* history: the shards as the inserts in lock order build them
    ops,         \* number of table operations every thread has started
    last,        \* history: hash -> entry of the latest insert under it
    inserts,     \* history: number of inserts a single owner has made
    warned,      \* a StatusEvent::Warning was emitted for the table
    input,       \* arguments of Searcher::analyze: max_depth, the root position
    search,      \* the search thread inside analyze_iterative
    tasks,       \* the worker tasks of the current iteration
    control,     \* the control thread, its channel and the cancellation token
    channel,     \* the status channel: the events sent, and whether it is open
    client,      \* the caller: timer thread, writer thread, wait_cancel
    game,        \* a game played with the move generator: state, buffer, plies
    uci,         \* Client::exec: current_position, the lines printed, the commands
    analysis     \* analyze_recursive on a game tree: arguments, artifact, visits

lockvars == <<rw, th, lin, ops>>

mapvars == <<last, inserts, warned>>

srchvars == <<input, search, tasks, control, channel, client>>

chessvars == <<game, uci>>

treevars == <<analysis>>

vars == <<tables, lockvars, mapvars, srchvars, chessvars, treevars>>

\* what the table specifications leave alone
offTT == <<mapvars, srchvars, chessvars, treevars>>

offMap == <<lockvars, srchvars, chessvars, treevars>>

\* what the search specification leaves alone
offSearch == <<lockvars, mapvars, chessvars, treevars>>

\* what the specifications of the core and of the client loop leave alone
offChess == <<tables, lockvars, mapvars, srchvars, treevars>>

\* what the specification of the recursive search leaves alone
offTree == <<lockvars, mapvars, srchvars, chessvars>>

(***************************************************************************)
(* Option<T>: None is the empty sequence, Some(x) the sequence <<x>>.      *)
(***************************************************************************)
None == << >>

Some(x) == <<x>>

IsSome(o) == Len(o) = 1

Unwrap(o) == o[1]

(***************************************************************************)
(* Sizes.  The code builds 128 shards (TABLE_COUNT) of                     *)
(* floor(8 MiB / size_of(bucket)) buckets, or 8 shards of 1024 buckets in  *)
(* small(); a bucket has BUCKET_SIZE = 8 slots.  The model is parametric   *)
(* in the three sizes and is checked with scaled-down values.              *)
(***************************************************************************)
TABLE_COUNT == 2

BucketCount == 2

BUCKET_SIZE == 2

\* hashes are 0 .. HashSpace-1
HashSpace == 5

\* operations a thread runs on the table
MaxOps == 2

\* inserts a single owner makes into the table
MaxInserts == 6

Hashes == 0 .. (HashSpace - 1)

Shards == 0 .. (TABLE_COUNT - 1)

Buckets == 0 .. (BucketCount - 1)

Slots == 0 .. (BUCKET_SIZE - 1)

\* the threads that use the table concurrently
Threads == {1, 2}

(***************************************************************************)
(* Bitwise exclusive or of two naturals.                                   *)
(***************************************************************************)
RECURSIVE Xor(_, _)
Xor(a, b) ==
    IF a = 0 THEN b
    ELSE IF b = 0 THEN a
    ELSE (((a % 2) + (b % 2)) % 2) + 2 * Xor(a \div 2, b \div 2)

(***************************************************************************)
(* TranspositionEntry.  The entry a thread t stores under hash h in the    *)
(* table specifications: its fields name h, so that an entry read under    *)
(* another hash is recognisable.                                           *)
(***************************************************************************)
EntryOf(h, t) ==
    [kind |-> IF t % 2 = 1 THEN "Exact" ELSE "LowerBound",
     performed_move |-> t - 1,
     depth |-> h,
     max_depth |-> h + 1,
     evaluation |-> 100 * h + t]

(***************************************************************************)
(* TranspositionBucket                                                     *)
(***************************************************************************)
BucketEmpty == [i \in Slots |-> None]

\* the first of the slots S the scan of a bucket stops at, or BUCKET_SIZE
FirstSlot(S) ==
    IF S = {} THEN BUCKET_SIZE ELSE CHOOSE i \in S : \A j \in S : i <= j

SlotHolds(slot, hash) == IsSome(slot) /\ Unwrap(slot).hash = hash

BucketFind(bucket, hash) ==
    LET i == FirstSlot({j \in Slots : SlotHolds(bucket[j], hash)})
    IN  IF i < BUCKET_SIZE THEN Some(Unwrap(bucket[i]).entry) ELSE None

\* variant: the slot is chosen by the hash alone
ReplacementIndexOfHash(hash, entry) == hash % BUCKET_SIZE

\* `(hash ^ entry.performed_move.as_raw() as u64) as usize % self.slots.len()`
ReplacementIndex(hash, entry) == Xor(hash, entry.performed_move) % BUCKET_SIZE

\* variant: the scan takes the first free slot and never matches a stored hash
InsertTargetAppending(bucket, hash, entry) ==
    LET i == FirstSlot({j \in Slots : ~IsSome(bucket[j])})
    IN  IF i < BUCKET_SIZE
        THEN [index |-> i, result |-> "Inserted"]
        ELSE [index |-> ReplacementIndex(hash, entry),
              result |-> "Replaced"]

\* the slot insert_or_replace writes and the result it reports
InsertTarget(bucket, hash, entry) ==
    LET i == FirstSlot({j \in Slots : ~IsSome(bucket[j]) \/ SlotHolds(bucket[j], hash)})
    IN  IF i < BUCKET_SIZE
        THEN [index |-> i,
              result |-> IF IsSome(bucket[i]) THEN "Swapped" ELSE "Inserted"]
        ELSE [index |-> ReplacementIndex(hash, entry),
              result |-> "Replaced"]

InsertOrReplace(bucket, hash, entry) ==
    LET tg == InsertTarget(bucket, hash, entry)
    IN  [bucket |-> [bucket EXCEPT ![tg.index] = Some([hash |-> hash, entry |-> entry])],
         result |-> tg.result]

\* variant: a replacement is counted as a new slot
InsertedOrReplaced(result) == result \in {"Inserted", "Replaced"}

Inserted(result) == result = "Inserted"

(***************************************************************************)
(* TranspositionTable                                                      *)
(***************************************************************************)
WithBucketCount == [buckets |-> [b \in Buckets |-> BucketEmpty], used_slots |-> 0]

BucketIndex(hash) == hash % BucketCount

TableFind(table, hash) == BucketFind(table.buckets[BucketIndex(hash)], hash)

TableInsert(table, hash, entry) ==
    LET b == BucketIndex(hash)
        r == InsertOrReplace(table.buckets[b], hash, entry)
    IN  [buckets |-> [table.buckets EXCEPT ![b] = r.bucket],
         used_slots |-> IF Inserted(r.result) THEN table.used_slots + 1
                        ELSE table.used_slots]

TableEntries(table) == table.used_slots

TableMaxEntries(table) == BucketCount * BUCKET_SIZE

(***************************************************************************)
(* TranspositionTableAccess                                                *)
(***************************************************************************)
RECURSIVE SumOver(_, _)
SumOver(f, S) ==
    IF S = {} THEN 0
    ELSE LET x == CHOOSE y \in S : TRUE IN f[x] + SumOver(f, S \ {x})

ShardIndex(hash) == hash % TABLE_COUNT

AccessNew == [s \in Shards |-> WithBucketCount]

AccessFind(tt, hash) == TableFind(tt[ShardIndex(hash)], hash)

AccessInsert(tt, hash, entry) ==
    [tt EXCEPT ![ShardIndex(hash)] = TableInsert(tt[ShardIndex(hash)], hash, entry)]

AccessEntries(tt) == SumOver([s \in Shards |-> TableEntries(tt[s])], Shards)

AccessMaxEntries(tt) == SumOver([s \in Shards |-> TableMaxEntries(tt[s])], Shards)

\* saturation() > 0.5, with the quotient entries / max_entries kept exact
SaturationAboveHalf(tt) == 2 * AccessEntries(tt) > AccessMaxEntries(tt)

(***************************************************************************)
(* The values the variables of a specification keep while another          *)
(* specification runs.                                                     *)
(***************************************************************************)
Idle == [pc |-> "idle", hash |-> 0, index |-> 0, result |-> "", found |-> None]

Unlocked == [writer |-> 0, readers |-> {}]

TTIdle ==
    /\ rw = [s \in Shards |-> Unlocked]
    /\ th = [t \in Threads |-> Idle]
    /\ lin = AccessNew
    /\ ops = [t \in Threads |-> 0]

MapIdle ==
    /\ last = [h \in Hashes |-> None]
    /\ inserts = 0
    /\ warned = "unchecked"

SearchOff ==
    [pc |-> "off", depth |-> 0, nodes_searched |-> 0, best_eval |-> 0,
     best_mv |-> None, interrupted |-> FALSE]

ControlOff == [pc |-> "off", queue |-> 0, senders |-> {}, cancelled |-> FALSE]

ClientOff ==
    [caller |-> "off", timer |-> "off", writer |-> "off", read |-> 0,
     best_line |-> None, out |-> << >>]

SearchIdle ==
    /\ input = [max_depth |-> None, root_moves |-> 0, followed |-> 0]
    /\ search = SearchOff
    /\ tasks = << >>
    /\ control = ControlOff
    /\ channel = [events |-> << >>, open |-> FALSE]
    /\ client = ClientOff

GameOff ==
    [state |-> None, legal_moves |-> {}, generated |-> FALSE, ply |-> 0]

UciOff ==
    [pc |-> "off", current_position |-> None, current_search |-> None,
     before |-> None, failed |-> FALSE, out |-> << >>, commands |-> 0]

ChessIdle ==
    /\ game = GameOff
    /\ uci = UciOff

AnalysisOff == [pc |-> "off"]

TreeIdle == analysis = AnalysisOff

(***************************************************************************)
(* The table under concurrent use.  A thread runs insert or find of        *)
(* TranspositionTableAccess: it takes the lock of the shard the hash       *)
(* routes to, works on the shard and releases the lock.  The store into a  *)
(* slot, `*e = Some((hash, entry))`, is two memory writes (the hash, then  *)
(* the entry with the discriminant of the Option), and the counter is      *)
(* updated after insert_or_replace returned, all inside the critical       *)
(* section.                                                                *)
(***************************************************************************)
\* RwLock::write succeeds when nobody holds the lock
CanWrite(lock) == lock.writer = 0 /\ lock.readers = {}

\* variant: a reader does not wait for the writer
CanReadAnytime(lock) == TRUE

\* RwLock::read succeeds when no writer holds the lock
CanRead(lock) == lock.writer = 0

InitTT ==
    /\ tables = AccessNew
    /\ TTIdle
    /\ MapIdle
    /\ SearchIdle
    /\ ChessIdle
    /\ TreeIdle

\* TranspositionTableAccess::insert takes the write lock of the shard
LockWrite(t, h) ==
    LET s == ShardIndex(h)
    IN  /\ th[t].pc = "idle"
        /\ ops[t] < MaxOps
        /\ CanWrite(rw[s])
        /\ rw' = [rw EXCEPT ![s].writer = t]
        /\ th' = [th EXCEPT ![t] = [Idle EXCEPT !.pc = "insert_scan", !.hash = h]]
        /\ lin' = AccessInsert(lin, h, EntryOf(h, t))
        /\ ops' = [ops EXCEPT ![t] = @ + 1]
        /\ UNCHANGED <<tables, offTT>>

\* insert_or_replace picks the slot and stores the hash
WriteHash(t) ==
    LET h == th[t].hash
        s == ShardIndex(h)
        b == BucketIndex(h)
        bucket == tables[s].buckets[b]
        tg == InsertTarget(bucket, h, EntryOf(h, t))
        old == bucket[tg.index]
    IN  /\ th[t].pc = "insert_scan"
        /\ tables' = [tables EXCEPT ![s].buckets[b][tg.index] =
                         IF IsSome(old)
                         THEN Some([hash |-> h, entry |-> Unwrap(old).entry])
                         ELSE None]
        /\ th' = [th EXCEPT ![t].pc = "insert_store", ![t].index = tg.index,
                            ![t].result = tg.result]
        /\ UNCHANGED <<rw, lin, ops, offTT>>

\* insert_or_replace stores the entry
WriteEntry(t) ==
    LET h == th[t].hash
        s == ShardIndex(h)
        b == BucketIndex(h)
    IN  /\ th[t].pc = "insert_store"
        /\ tables' = [tables EXCEPT ![s].buckets[b][th[t].index] =
                         Some([hash |-> h, entry |-> EntryOf(h, t)])]
        /\ th' = [th EXCEPT ![t].pc = "insert_count"]
        /\ UNCHANGED <<rw, lin, ops, offTT>>

\* TranspositionTable::insert counts the slot and the guard is dropped
FinishInsert(t) ==
    LET s == ShardIndex(th[t].hash)
    IN  /\ th[t].pc = "insert_count"
        /\ tables' = [tables EXCEPT ![s].used_slots =
                         IF Inserted(th[t].result) THEN @ + 1 ELSE @]
        /\ rw' = [rw EXCEPT ![s].writer = 0]
        /\ th' = [th EXCEPT ![t] = Idle]
        /\ UNCHANGED <<lin, ops, offTT>>

\* TranspositionTableAccess::find takes the read lock of the shard
LockRead(t, h) ==
    LET s == ShardIndex(h)
    IN  /\ th[t].pc = "idle"
        /\ ops[t] < MaxOps
        /\ CanRead(rw[s])
        /\ rw' = [rw EXCEPT ![s].readers = @ \cup {t}]
        /\ th' = [th EXCEPT ![t] = [Idle EXCEPT !.pc = "find_read", !.hash = h]]
        /\ ops' = [ops EXCEPT ![t] = @ + 1]
        /\ UNCHANGED <<tables, lin, offTT>>

\* TranspositionTable::find and the copy of the entry
ReadFind(t) ==
    /\ th[t].pc = "find_read"
    /\ th' = [th EXCEPT ![t].pc = "find_done",
                        ![t].found = AccessFind(tables, th[t].hash)]
    /\ UNCHANGED <<tables, rw, lin, ops, offTT>>

\* the read guard is dropped
UnlockRead(t) ==
    LET s == ShardIndex(th[t].hash)
    IN  /\ th[t].pc = "find_done"
        /\ rw' = [rw EXCEPT ![s].readers = @ \ {t}]
        /\ th' = [th EXCEPT ![t] = Idle]
        /\ UNCHANGED <<tables, lin, ops, offTT>>

NextTT ==
    \/ \E t \in Threads, h \in Hashes : LockWrite(t, h)
    \/ \E t \in Threads : WriteHash(t)
    \/ \E t \in Threads : WriteEntry(t)
    \/ \E t \in Threads : FinishInsert(t)
    \/ \E t \in Threads, h \in Hashes : LockRead(t, h)
    \/ \E t \in Threads : ReadFind(t)
    \/ \E t \in Threads : UnlockRead(t)

SpecTT == InitTT /\ [][NextTT]_vars

(***************************************************************************)
(* The table under a single owner: insert and find run to completion one   *)
(* after the other, and the search ends with the saturation test of        *)
(* analyze_iterative.                                                      *)
(***************************************************************************)
InitMap ==
    /\ tables = AccessNew
    /\ TTIdle
    /\ MapIdle
    /\ SearchIdle
    /\ ChessIdle
    /\ TreeIdle

\* transpositions.insert(h, entry) with either of the two entries for h
Insert(h, t) ==
    /\ warned = "unchecked"
    /\ inserts < MaxInserts
    /\ tables' = AccessInsert(tables, h, EntryOf(h, t))
    /\ last' = [last EXCEPT ![h] = Some(EntryOf(h, t))]
    /\ inserts' = inserts + 1
    /\ UNCHANGED <<warned, offMap>>

\* the end of analyze_iterative: `if transpositions.saturation() > 0.5`
SaturationCheck ==
    /\ warned = "unchecked"
    /\ warned' = IF SaturationAboveHalf(tables) THEN "warned" ELSE "quiet"
    /\ UNCHANGED <<tables, last, inserts, offMap>>

NextMap ==
    \/ \E h \in Hashes, t \in Threads : Insert(h, t)
    \/ SaturationCheck

SpecMap == InitMap /\ [][NextMap]_vars

(***************************************************************************)
(* Properties of the transposition table                                   *)
(***************************************************************************)
Occupied(table) ==
    Cardinality({<<b, i>> \in Buckets \X Slots : IsSome(table.buckets[b][i])})

\* the hashes inserted so far that route to bucket b of shard s
Received(s, b) ==
    {h \in Hashes : IsSome(last[h]) /\ ShardIndex(h) = s /\ BucketIndex(h) = b}

NoOverflow == \A s \in Shards, b \in Buckets : Cardinality(Received(s, b)) <= BUCKET_SIZE

\* C7: the operations on a shard are atomic under its lock.  A find of h
\* returns None or a whole entry that was inserted under h, namely the one
\* the inserts made so far, taken in the order they got the lock, leave
\* under h; and a shard nobody is writing is in the state that the inserts,
\* run one after the other in that order, produce.
C7_ShardOperationsAtomic ==
    /\ \A t \in Threads : th[t].pc = "find_done" =>
          /\ \/ th[t].found = None
             \/ \E u \in Threads : th[t].found = Some(EntryOf(th[t].hash, u))
          /\ th[t].found = AccessFind(lin, th[t].hash)
    /\ \A s \in Shards : rw[s].writer = 0 => tables[s] = lin[s]

\* a find returned the entry the other thread stored, in a bucket that two
\* racing inserts had filled
C7_Witness ==
    \E t \in Threads, u \in Threads :
        /\ t # u
        /\ th[t].pc = "find_done"
        /\ th[t].found = Some(EntryOf(th[t].hash, u))
        /\ Occupied(tables[ShardIndex(th[t].hash)]) = BUCKET_SIZE
        /\ ops[u] > 0 /\ ops[t] > 1

\* C8: while no bucket has received more than BUCKET_SIZE distinct hashes the
\* table is a map: find(h) is the entry of the latest insert under h (None if
\* there was none) and entries() is the number of distinct hashes inserted.
C8_TableIsMap ==
    NoOverflow =>
        /\ \A h \in Hashes : AccessFind(tables, h) = last[h]
        /\ AccessEntries(tables) = Cardinality({h \in Hashes : IsSome(last[h])})

\* two hashes of one bucket are stored, and one hash was inserted again
C8_Witness ==
    /\ NoOverflow
    /\ \E h1 \in Hashes, h2 \in Hashes :
          /\ h1 # h2
          /\ ShardIndex(h1) = ShardIndex(h2) /\ BucketIndex(h1) = BucketIndex(h2)
          /\ IsSome(last[h1]) /\ IsSome(last[h2])
    /\ inserts > Cardinality({h \in Hashes : IsSome(last[h])})

\* every slot of the bucket of hash is occupied by another hash
FullOfOthers(tt, hash) ==
    \A i \in Slots :
        LET slot == tt[ShardIndex(hash)].buckets[BucketIndex(hash)][i]
        IN  IsSome(slot) /\ Unwrap(slot).hash # hash

\* the step is transpositions.insert(h, EntryOf(h, t))
InsertStep(h, t) ==
    /\ inserts' = inserts + 1
    /\ last' = [last EXCEPT ![h] = Some(EntryOf(h, t))]
    /\ tables' = AccessInsert(tables, h, EntryOf(h, t))

\* C28: an insert into a bucket whose slots are all occupied by other
\* hashes overwrites exactly the slot with index
\* (hash XOR performed_move bits) mod BUCKET_SIZE with the new hash and
\* entry: the other slots of the bucket, the other buckets and shards and
\* used_slots are unchanged, and the evicted hash is no longer found.
C28_ReplacementOverwritesOneSlot ==
    [][\A h \in Hashes, t \in Threads :
          (InsertStep(h, t) /\ FullOfOthers(tables, h)) =>
              LET s == ShardIndex(h)
                  b == BucketIndex(h)
                  k == Xor(h, t - 1) % BUCKET_SIZE
                  evicted == Unwrap(tables[s].buckets[b][k]).hash
              IN  /\ EntryOf(h, t).performed_move = t - 1
                  /\ tables'[s].buckets[b][k] = Some([hash |-> h, entry |-> EntryOf(h, t)])
                  /\ \A i \in Slots \ {k} :
                        tables'[s].buckets[b][i] = tables[s].buckets[b][i]
                  /\ \A c \in Buckets \ {b} : tables'[s].buckets[c] = tables[s].buckets[c]
                  /\ \A r \in Shards \ {s} : tables'[r] = tables[r]
                  /\ tables'[s].used_slots = tables[s].used_slots
                  /\ AccessFind(tables', evicted) = None
                  /\ AccessFind(tables', h) = Some(EntryOf(h, t))]_vars

\* a hash that was inserted is no longer found: its slot, not the first of
\* a full bucket, was overwritten by the insert of another hash
C28_Witness ==
    \E h \in Hashes, g \in Hashes :
        /\ h # g
        /\ IsSome(last[h]) /\ AccessFind(tables, h) = None
        /\ FullOfOthers(tables, h)
        /\ LET bucket == tables[ShardIndex(h)].buckets[BucketIndex(h)]
               k == Xor(g, Unwrap(last[g]).performed_move) % BUCKET_SIZE
           IN  /\ IsSome(last[g])
               /\ k > 0
               /\ bucket[k] = Some([hash |-> g, entry |-> Unwrap(last[g])])

SlotsKept ==
    \A s \in Shards :
        /\ tables'[s].used_slots >= tables[s].used_slots
        /\ \A b \in Buckets, i \in Slots :
              IsSome(tables[s].buckets[b][i]) => IsSome(tables'[s].buckets[b][i])

\* C9: used_slots of a shard is the number of its occupied slots whenever
\* no insert is under way in the shard, also after replacements in a full
\* bucket and after concurrent inserts; an occupied slot stays occupied and
\* entries() never decreases; the saturation lies between 0 and 1.
C9_UsedSlotsCountOccupied ==
    /\ [](\A s \in Shards : rw[s].writer = 0 =>
              tables[s].used_slots = Occupied(tables[s]))
    /\ [](0 <= AccessEntries(tables) /\ AccessEntries(tables) <= AccessMaxEntries(tables))
    /\ [][SlotsKept]_vars

\* an insert found its bucket full and replaced a slot
C9_Witness ==
    \E t \in Threads : th[t].pc = "insert_count" /\ th[t].result = "Replaced"

\* C10: once every hash of the hash space (more than half of max_entries
\* of them) has been inserted, the saturation test at the end of the search
\* emits the warning.
C10_SaturationWarning ==
    (warned # "unchecked" /\ \A h \in Hashes : IsSome(last[h])) => warned = "warned"

(***************************************************************************)
(* Searcher::analyze.  The search of one position is reduced to what the   *)
(* threads exchange: the node counter of every worker task and the token   *)
(* it reads at every CheckInterval-th node, the entries the tasks store in *)
(* the table, the result of every task, the events the coordinator sends   *)
(* and the control channel.  The game tree itself is an input: the number  *)
(* of legal moves of the root, the number of nodes a task visits and the   *)
(* way the root's alpha-beta loop ends are chosen freely within what       *)
(* analyze_recursive allows.                                               *)
(***************************************************************************)
ONE_PAWN == 100

EVEN == 0

POS_INF == ONE_PAWN * 100

NEG_INF == ONE_PAWN * (-100)

MateInPly(ply) == POS_INF

\* analyze_recursive reads the token at every node whose number is a multiple
CheckInterval == 10000

\* iterations below this depth run one task
ParallelDepth == 3

\* the tasks of an iteration at or above ParallelDepth; the code runs
\* min(rayon::max_num_threads(), DEFAULT_MAX_THREAD_COUNT) of them
ParallelTasks == {0, 1}

\* `go depth d` with d up to MaxDepthArg, besides an unlimited search
MaxDepthArg == 1

\* iterations of a search that the model follows: up to the first parallel one
MaxIter == ParallelDepth + 1

\* iterations the model follows when the writer and the timer run as well
GoIter == 3

\* legal moves of the root position
MaxRootMoves == 1

\* multiples of CheckInterval a task can pass in one iteration
MaxCheckpoints == 1

Max(a, b) == IF a >= b THEN a ELSE b

Min(a, b) == IF a <= b THEN a ELSE b

\* usize::saturating_sub
SaturatingSub(a, b) == IF a >= b THEN a - b ELSE 0

\* the hash of the root position: the least hash stands for it
RootHash == CHOOSE h \in Hashes : \A g \in Hashes : h <= g

\* hashes of other positions that fall into the bucket of the root
Colliding ==
    {h \in Hashes \ {RootHash} :
        ShardIndex(h) = ShardIndex(RootHash) /\ BucketIndex(h) = BucketIndex(RootHash)}

Event(type, depth, nodes, evaluation) ==
    [type |-> type, depth |-> depth, nodes_searched |-> nodes, evaluation |-> evaluation]

\* `_ = sink.send(event)`: the receiver stays alive until the channel closes
Send(ch, event) == [ch EXCEPT !.events = Append(@, event)]

\* variant: the event never reaches the control thread
SendStopLost(c) == c

\* control.send(Stop): queued while the control thread holds the receiver
SendStopTo(c) ==
    IF c.pc \in {"done", "panicked"} THEN c ELSE [c EXCEPT !.queue = @ + 1]

\* variant: the token is read at every node
ShouldInterruptAnyNode(n, cancelled) == cancelled

\* `*nodes_searched % 10000 == 0 && token.is_cancelled()`
ShouldInterrupt(n, cancelled) == n % CheckInterval = 0 /\ cancelled

\* the next node at which a task is observed: the next multiple of
\* CheckInterval, or the last node of its tree
NextStop(n, size) == Min(size, ((n \div CheckInterval) + 1) * CheckInterval)

\* the table probe of analyze_recursive at the root (current_depth = 0)
RootProbe(tt, search_depth) ==
    LET found == AccessFind(tt, RootHash)
        alpha0 == -MateInPly(0)
        beta0 == MateInPly(0)
    IN  IF IsSome(found) /\ Unwrap(found).max_depth - Unwrap(found).depth >= search_depth
        THEN LET e == Unwrap(found)
                 alpha == IF e.kind = "LowerBound" THEN Max(alpha0, e.evaluation) ELSE alpha0
                 beta == IF e.kind = "UpperBound" THEN Min(beta0, e.evaluation) ELSE beta0
             IN  [ret |-> IF e.kind = "Exact" \/ alpha >= beta
                          THEN Some(e.evaluation) ELSE None,
                  alpha |-> alpha, beta |-> beta]
        ELSE [ret |-> None, alpha |-> alpha0, beta |-> beta0]

\* iter_moves(..).collect() is empty when the root has no entry
LineIsEmpty(tt) == ~IsSome(AccessFind(tt, RootHash))

RootEntry(kind, search_depth, evaluation) ==
    [kind |-> kind, performed_move |-> 0, depth |-> 0, max_depth |-> search_depth,
     evaluation |-> evaluation]

\* the entry of an inner node of the tree, one ply below the root
InnerEntry(h) ==
    [kind |-> "Exact", performed_move |-> h % BUCKET_SIZE, depth |-> 1,
     max_depth |-> 2, evaluation |-> EVEN]

\* the numbers of nodes a task can visit when the root has legal moves
TreeSizes(search_depth, root_moves, prioritized) ==
    LET children == root_moves + (IF IsSome(prioritized) THEN 1 ELSE 0)
    IN  {1 + children} \cup
        (IF search_depth >= 2
         THEN {k * CheckInterval + 1 + children : k \in 1 .. MaxCheckpoints}
         ELSE {})

\* what is left of a task that returned: Ok((eval, nodes_searched)) or Err
Returned(t, pc, nodes, eval) ==
    [t EXCEPT !.pc = pc, !.nodes = nodes, !.eval = eval, !.size = 0, !.outcome = "",
              !.alpha = 0, !.beta = 0, !.best_move = None]

NewTask(i, depth, best_mv) ==
    [pc |-> "ready", search_depth |-> SaturatingSub(depth, i % 2) + 1,
     best_move |-> IF i = 0 THEN best_mv ELSE None,
     nodes |-> 0, size |-> 0, outcome |-> "", alpha |-> 0, beta |-> 0, eval |-> 0]

DepthArgs == {None} \cup {Some(d) : d \in 0 .. MaxDepthArg}

\* the state when analyze has returned its three handles
Analyzing(followed) ==
    /\ tables = AccessNew
    /\ TTIdle
    /\ MapIdle
    /\ input \in [max_depth : DepthArgs, root_moves : 0 .. MaxRootMoves,
                   followed : {followed}]
    /\ search = [pc |-> "loop", depth |-> 0, nodes_searched |-> 0, best_eval |-> NEG_INF,
                 best_mv |-> None, interrupted |-> FALSE]
    /\ tasks = << >>
    /\ control = [pc |-> "recv", queue |-> 0, senders |-> {"caller", "timer", "search"},
                  cancelled |-> FALSE]
    /\ channel = [events |-> << >>, open |-> TRUE]
    /\ ChessIdle
    /\ TreeIdle

\* a caller that holds the three handles, sends Stop and joins (test_termination)
InitSearch ==
    /\ Analyzing(MaxIter)
    /\ client = [ClientOff EXCEPT !.caller = "idle"]

\* Search::spawn of the UCI client: analyze, the timer thread, the writer thread
InitGo ==
    /\ Analyzing(GoIter)
    /\ client = [caller |-> "idle", timer |-> "armed", writer |-> "recv", read |-> 0,
                 best_line |-> None, out |-> << >>]

TaskIds == DOMAIN tasks

\* the top of `for depth in 0..max_depth`: the tasks of the iteration are built
LoopHead ==
    LET limit == input.max_depth
        more == IF IsSome(limit) THEN search.depth < Unwrap(limit) ELSE TRUE
        thread_count == IF search.depth < ParallelDepth THEN 1
                        ELSE Cardinality(ParallelTasks)
    IN  /\ search.pc = "loop"
        /\ more => search.depth < input.followed
        /\ IF more
           THEN /\ tasks' = [i \in 1 .. thread_count |->
                                NewTask(i - 1, search.depth, search.best_mv)]
                /\ search' = [search EXCEPT !.pc = "par"]
           ELSE /\ tasks' = << >>
                /\ search' = [search EXCEPT !.pc = "after_loop"]
        /\ UNCHANGED <<tables, input, control, channel, client, offSearch>>

\* analyze_recursive enters the root: the node is counted, the table probed;
\* a root without legal moves returns its terminal evaluation at once
TaskStart(i) ==
    LET t == tasks[i]
        probe == RootProbe(tables, t.search_depth)
    IN  /\ search.pc = "par"
        /\ t.pc = "ready"
        /\ IF ShouldInterrupt(1, control.cancelled)
           THEN tasks' = [tasks EXCEPT ![i] = Returned(t, "err", 1, 0)]
           ELSE IF IsSome(probe.ret)
           THEN tasks' = [tasks EXCEPT ![i] = Returned(t, "ok", 1, Unwrap(probe.ret))]
           ELSE IF input.root_moves = 0
           THEN \E terminal \in {NEG_INF, EVEN} :
                    tasks' = [tasks EXCEPT ![i] = Returned(t, "ok", 1, terminal)]
           ELSE \E size \in TreeSizes(t.search_depth, input.root_moves, t.best_move),
                   outcome \in {"fail_low", "exact", "cutoff"} :
                    /\ outcome = "exact" => probe.alpha < EVEN /\ EVEN < probe.beta
                    /\ tasks' = [tasks EXCEPT ![i].pc = "run", ![i].nodes = 1,
                                              ![i].size = size, ![i].outcome = outcome,
                                              ![i].alpha = probe.alpha,
                                              ![i].beta = probe.beta]
        /\ UNCHANGED <<tables, input, search, control, channel, client, offSearch>>

\* the task runs on to the next multiple of CheckInterval or to its last node
TaskAdvance(i) ==
    LET t == tasks[i]
        n == NextStop(t.nodes, t.size)
    IN  /\ search.pc = "par"
        /\ t.pc = "run"
        /\ t.nodes < t.size
        /\ tasks' = IF ShouldInterrupt(n, control.cancelled)
                    THEN [tasks EXCEPT ![i] = Returned(t, "err", n, 0)]
                    ELSE [tasks EXCEPT ![i].nodes = n]
        /\ UNCHANGED <<tables, input, search, control, channel, client, offSearch>>

\* an inner node of the tree stores its entry
TaskInsertInner(i, h) ==
    LET t == tasks[i]
    IN  /\ search.pc = "par"
        /\ t.pc = "run"
        /\ t.nodes < t.size
        /\ t.search_depth >= 2
        /\ tables' = AccessInsert(tables, h, InnerEntry(h))
        /\ UNCHANGED <<input, search, tasks, control, channel, client, offSearch>>

\* the loop over the root's moves ends: beta cutoff, a raised alpha, or neither
TaskFinish(i) ==
    LET t == tasks[i]
    IN  /\ search.pc = "par"
        /\ t.pc = "run"
        /\ t.nodes = t.size
        /\ CASE t.outcome = "cutoff" ->
                  /\ tables' = AccessInsert(tables, RootHash,
                                   RootEntry("LowerBound", t.search_depth, t.beta))
                  /\ tasks' = [tasks EXCEPT ![i] = Returned(t, "ok", t.nodes, t.beta)]
             [] t.outcome = "exact" ->
                  /\ tables' = AccessInsert(tables, RootHash,
                                   RootEntry("Exact", t.search_depth, EVEN))
                  /\ tasks' = [tasks EXCEPT ![i] = Returned(t, "ok", t.nodes, EVEN)]
             [] OTHER ->
                  /\ tables' = tables
                  /\ tasks' = [tasks EXCEPT ![i] = Returned(t, "ok", t.nodes, t.alpha)]
        /\ UNCHANGED <<input, search, control, channel, client, offSearch>>

RECURSIVE SumNodes(_, _)
SumNodes(ts, n) == IF n = 0 THEN 0 ELSE ts[n].nodes + SumNodes(ts, n - 1)

RECURSIVE MaxEval(_, _)
MaxEval(ts, n) == IF n = 1 THEN ts[1].eval ELSE Max(ts[n].eval, MaxEval(ts, n - 1))

\* results is Ok: the tally, the best evaluation and the Progress event
EmitProgress ==
    LET total == search.nodes_searched + SumNodes(tasks, Len(tasks))
    IN  /\ search.pc = "par"
        /\ \A i \in TaskIds : tasks[i].pc = "ok"
        /\ search' = [search EXCEPT !.pc = "line", !.nodes_searched = total,
                                    !.best_eval = MaxEval(tasks, Len(tasks))]
        /\ channel' = Send(channel, Event("Progress", search.depth + 1, total, 0))
        /\ tasks' = << >>
        /\ UNCHANGED <<tables, input, control, client, offSearch>>

\* a search that never takes a mate for the end of its iterations
MateFoundNever(best_eval) == FALSE

\* `best_eval >= eval::Evaluation::POS_INF`: a forced mate ends the iterations
MateFound(best_eval) == best_eval >= POS_INF

\* the line is read from the table, asserted non-empty and sent as BestMove;
\* a failed assertion unwinds the thread, which drops its senders
EmitBestMove ==
    /\ search.pc = "line"
    /\ IF LineIsEmpty(tables)
       THEN /\ search' = [search EXCEPT !.pc = "panicked"]
            /\ channel' = [channel EXCEPT !.open = FALSE]
            /\ control' = [control EXCEPT !.senders = @ \ {"search"}]
       ELSE /\ channel' = Send(channel, Event("BestMove", 0, 0, search.best_eval))
            /\ search' = IF MateFound(search.best_eval)
                         THEN [search EXCEPT !.pc = "after_loop",
                                             !.best_mv = Some(Unwrap(AccessFind(tables, RootHash)).performed_move)]
                         ELSE [search EXCEPT !.pc = "loop", !.depth = @ + 1,
                                             !.best_mv = Some(Unwrap(AccessFind(tables, RootHash)).performed_move)]
            /\ control' = control
    /\ UNCHANGED <<tables, input, tasks, client, offSearch>>

\* results is Err(SearchInterrupt); tasks that had not started are skipped
Interrupted ==
    LET found == AccessFind(tables, RootHash)
    IN  /\ search.pc = "par"
        /\ \E i \in TaskIds : tasks[i].pc = "err"
        /\ \A i \in TaskIds : tasks[i].pc \in {"ok", "err", "ready"}
        /\ search' = [search EXCEPT !.pc = "after_loop", !.interrupted = TRUE]
        /\ channel' = IF IsSome(found) /\ Unwrap(found).evaluation > search.best_eval
                      THEN Send(channel, Event("BestMove", 0, 0, Unwrap(found).evaluation))
                      ELSE channel
        /\ tasks' = << >>
        /\ UNCHANGED <<tables, input, control, client, offSearch>>

\* after the loop: the saturation warning
AfterLoop ==
    /\ search.pc = "after_loop"
    /\ search' = [search EXCEPT !.pc = "send_stop"]
    /\ channel' = IF SaturationAboveHalf(tables)
                  THEN Send(channel, Event("Warning", 0, 0, 0))
                  ELSE channel
    /\ UNCHANGED <<tables, input, tasks, control, client, offSearch>>

\* tx3.send(Stop).unwrap(), and the closure returns: sink and tx3 are dropped
SearchReturns ==
    /\ search.pc = "send_stop"
    /\ search' = [search EXCEPT !.pc = "done"]
    /\ control' = [SendStopTo(control) EXCEPT !.senders = @ \ {"search"}]
    /\ channel' = [channel EXCEPT !.open = FALSE]
    /\ UNCHANGED <<tables, input, tasks, client, offSearch>>

\* controller.recv(): a Stop event, or RecvError once every sender is gone
ControlRecv ==
    /\ control.pc = "recv"
    /\ control.queue > 0 \/ control.senders = {}
    /\ control' = [control EXCEPT !.pc = "cancel",
                                  !.queue = IF @ > 0 THEN @ - 1 ELSE @]
    /\ UNCHANGED <<tables, input, search, tasks, channel, client, offSearch>>

\* signal_token.cancel()
ControlCancel ==
    /\ control.pc = "cancel"
    /\ control' = [control EXCEPT !.pc = "join", !.cancelled = TRUE]
    /\ UNCHANGED <<tables, input, search, tasks, channel, client, offSearch>>

\* search_handle.join().unwrap()
ControlJoin ==
    /\ control.pc = "join"
    /\ search.pc \in {"done", "panicked"}
    /\ control' = [control EXCEPT !.pc = IF search.pc = "done" THEN "done" ELSE "panicked"]
    /\ UNCHANGED <<tables, input, search, tasks, channel, client, offSearch>>

\* the timer thread of Search::spawn: the search time has elapsed
TimerFires ==
    /\ client.timer = "armed"
    /\ client' = [client EXCEPT !.timer = "done"]
    /\ control' = [SendStopTo(control) EXCEPT !.senders = @ \ {"timer"}]
    /\ UNCHANGED <<tables, input, search, tasks, channel, offSearch>>

\* the caller stops the search: wait_cancel sends Stop
CallerStops ==
    /\ client.caller = "idle"
    /\ client' = [client EXCEPT !.caller = "join_search"]
    /\ control' = SendStopTo(control)
    /\ UNCHANGED <<tables, input, search, tasks, channel, offSearch>>

\* wait_cancel: self.search_handle.join().unwrap() on the handle analyze returned
CallerJoinsSearch ==
    /\ client.caller = "join_search"
    /\ control.pc \in {"done", "panicked"}
    /\ client' = [client EXCEPT !.caller =
                     IF control.pc # "done" THEN "panicked"
                     ELSE IF client.writer = "off" THEN "done" ELSE "join_writer"]
    /\ control' = IF control.pc = "done" /\ client.writer # "off" THEN control
                  ELSE [control EXCEPT !.senders = @ \ {"caller"}]
    /\ UNCHANGED <<tables, input, search, tasks, channel, offSearch>>

\* wait_cancel: self.write_handle.join().unwrap(), then self is dropped
CallerJoinsWriter ==
    /\ client.caller = "join_writer"
    /\ client.writer = "done"
    /\ client' = [client EXCEPT !.caller = "done"]
    /\ control' = [control EXCEPT !.senders = @ \ {"caller"}]
    /\ UNCHANGED <<tables, input, search, tasks, channel, offSearch>>

\* the lines the writer thread prints for an event
LinesFor(event) ==
    IF event.type = "BestMove" THEN <<"info score", "info pv">>
    ELSE IF event.type = "Progress" THEN <<"info time">>
    ELSE <<"info string">>

\* the writer thread: receiver.recv() returns the next event
WriterRecv ==
    LET event == channel.events[client.read + 1]
    IN  /\ client.writer = "recv"
        /\ client.read < Len(channel.events)
        /\ client' = [client EXCEPT !.read = @ + 1,
                                    !.out = @ \o LinesFor(event),
                                    !.best_line = IF event.type = "BestMove"
                                                  THEN Some(event.evaluation) ELSE @]
        /\ UNCHANGED <<tables, input, search, tasks, control, channel, offSearch>>

\* the channel is closed and drained: bestmove is printed if a line was kept
WriterEnds ==
    /\ client.writer = "recv"
    /\ client.read = Len(channel.events)
    /\ ~channel.open
    /\ client' = [client EXCEPT !.writer = "done",
                                !.out = IF IsSome(client.best_line)
                                        THEN Append(@, "bestmove") ELSE @]
    /\ UNCHANGED <<tables, input, search, tasks, control, channel, offSearch>>

\* the threads analyze starts, and the caller's Stop and join
NextSearch ==
    \/ LoopHead
    \/ \E i \in TaskIds : TaskStart(i)
    \/ \E i \in TaskIds : TaskAdvance(i)
    \/ \E i \in TaskIds, h \in Colliding : TaskInsertInner(i, h)
    \/ \E i \in TaskIds : TaskFinish(i)
    \/ EmitProgress
    \/ EmitBestMove
    \/ Interrupted
    \/ AfterLoop
    \/ SearchReturns
    \/ ControlRecv
    \/ ControlCancel
    \/ ControlJoin
    \/ CallerStops
    \/ CallerJoinsSearch

SpecSearch == InitSearch /\ [][NextSearch]_vars

\* the steps of the search thread and of its worker tasks
SearchThread ==
    \/ LoopHead
    \/ \E i \in TaskIds : TaskStart(i) \/ TaskAdvance(i) \/ TaskFinish(i)
    \/ EmitProgress
    \/ EmitBestMove
    \/ Interrupted
    \/ AfterLoop
    \/ SearchReturns

\* the steps of the control thread
ControlThread == ControlRecv \/ ControlCancel \/ ControlJoin

\* the search with its threads scheduled: a thread that can take a step
\* takes one; the caller sends Stop when it likes, or never.  The depth
\* limits are none, zero and the largest one, the root has no move or the
\* largest number of moves.
InitSearchLive ==
    /\ InitSearch
    /\ input.max_depth \in {None, Some(0), Some(MaxDepthArg)}
    /\ input.root_moves \in {0, MaxRootMoves}

SpecSearchLive ==
    InitSearchLive /\ [][NextSearch]_vars /\ WF_vars(SearchThread) /\ WF_vars(ControlThread)

\* the same with the timer and the writer of the UCI client
NextGo ==
    \/ NextSearch
    \/ TimerFires
    \/ CallerJoinsWriter
    \/ WriterRecv
    \/ WriterEnds

SpecGo == InitGo /\ [][NextGo]_vars

(***************************************************************************)
(* Properties of the search and of its threads                             *)
(***************************************************************************)
Events == channel.events

EventsOf(type) == {i \in 1 .. Len(Events) : Events[i].type = type}

SearchEnded == search.pc \in {"done", "panicked"}

\* the BestMove events that report a forced mate
MateEvents == {i \in EventsOf("BestMove") : Events[i].evaluation >= POS_INF}

\* C12: once a BestMove event with an evaluation >= POS_INF has been sent,
\* iterative deepening has ended: the search thread is past its loop, no task
\* of a further iteration exists, and no Progress or BestMove event follows
\* that BestMove event.
C12_MateEndsIterativeDeepening ==
    \A i \in MateEvents :
        /\ search.pc \in {"after_loop", "send_stop", "done"}
        /\ tasks = << >>
        /\ \A j \in EventsOf("Progress") \cup EventsOf("BestMove") : j <= i

\* a completed iteration found a mate while the depth limit allowed another
\* iteration and nobody had interrupted the search; the search has returned
C12_Witness ==
    /\ MateEvents # {}
    /\ search.pc = "done"
    /\ ~search.interrupted
    /\ ~control.cancelled
    /\ IsSome(input.max_depth) => search.depth + 1 < Unwrap(input.max_depth)
    /\ search.depth + 1 < input.followed

\* C2: a search without depth limit whose caller has sent Stop ends without
\* a panic: neither the search thread nor the control thread panics, and the
\* join on the handle that analyze returned does not fail.
C2_StoppedSearchEndsCleanly ==
    (input.max_depth = None /\ client.caller # "idle") =>
        /\ search.pc # "panicked"
        /\ control.pc # "panicked"
        /\ client.caller # "panicked"

\* C3: when the search was interrupted (a worker returned SearchInterrupt
\* after the token was set) and the status channel has closed, the channel
\* has carried at least one BestMove event.
C3_InterruptedSearchSentBestMove ==
    (search.interrupted /\ ~channel.open) => EventsOf("BestMove") # {}

\* the interrupted iteration itself added a BestMove to those of the
\* completed iterations
C3_Witness ==
    /\ search.interrupted
    /\ ~channel.open
    /\ control.cancelled
    /\ Len(Events) >= 3
    /\ Events[Len(Events)].type = "BestMove"
    /\ Events[Len(Events) - 1].type = "BestMove"

\* C4: when the writer thread of a `go` has ended, it has printed exactly
\* one bestmove line, and that line is the last one.
C4_OneBestmoveAfterInfo ==
    client.writer = "done" =>
        /\ Cardinality({i \in 1 .. Len(client.out) : client.out[i] = "bestmove"}) = 1
        /\ client.out[Len(client.out)] = "bestmove"

\* C6: when the search thread has ended, every Progress event is directly
\* followed by a BestMove event, the k-th Progress event carries depth k,
\* and nodes_searched does not decrease from one Progress event to the next.
C6_ProgressThenBestMove ==
    SearchEnded =>
        /\ \A i \in EventsOf("Progress") :
              i < Len(Events) /\ Events[i + 1].type = "BestMove"
        /\ \A i \in EventsOf("Progress") :
              Events[i].depth = Cardinality({j \in EventsOf("Progress") : j <= i})
        /\ \A i \in EventsOf("Progress"), j \in EventsOf("Progress") :
              i < j => Events[i].nodes_searched <= Events[j].nodes_searched

\* C21: when a completed iteration reads the line from the table
\* (after its Progress event) the table holds an entry for the hash of the
\* root, so that the line is not empty, and the search thread never panics
\* at the assertion on the line, whatever the root is.
C21_LineNeverEmpty ==
    /\ search.pc = "line" => IsSome(AccessFind(tables, RootHash))
    /\ search.pc # "panicked"

\* the coordinator builds the tasks of an iteration
IterationStarts == search.pc = "loop" /\ search'.pc = "par"

\* C22: once the cancellation token is set the coordinator starts no
\* further iteration of `for depth in 0..max_depth`, also when the tasks of
\* the iterations visit fewer than CheckInterval nodes.
C22_NoIterationAfterCancel == [][control.cancelled => ~IterationStarts]_vars

\* the search thread is about to send Stop after its loop ended by itself
EndsByItself == search.pc = "send_stop" /\ ~search.interrupted

\* C23: when the search ended by itself, the control thread still holds the
\* receiver of the control channel at the time the search thread sends Stop
\* to it, so that the send does not fail, and the control thread then ends
\* (the join on the handle of analyze completes), also when the caller
\* keeps its sender and never sends Stop.
C23_OwnStopEndsControl ==
    /\ [](EndsByItself => control.pc \in {"recv", "cancel", "join"})
    /\ (EndsByItself ~> control.pc = "done")

\* the search ended by itself and the control thread has ended, while the
\* caller holds its sender and has not sent Stop
C23_Witness ==
    /\ search.pc = "done"
    /\ ~search.interrupted
    /\ control.pc = "done"
    /\ client.caller = "idle"
    /\ "caller" \in control.senders

(***************************************************************************)
(* The core: squares, bit boards and attacks.  A BitBoard is the set of    *)
(* the squares whose bit is set; square 0 is a1, 7 is h1, 63 is h8.  An    *)
(* Offset is a pair <<file, rank>>.                                        *)
(***************************************************************************)
Squares == 0 .. 63

Colors == {"White", "Black"}

\* Piece::ALL, in its order
PieceAll == <<"Pawn", "Knight", "Bishop", "Rook", "Queen", "King">>

Pieces == {PieceAll[i] : i \in DOMAIN PieceAll}

FileOf(sq) == sq % 8

RankOf(sq) == sq \div 8

SquareFrom(rank, file) == rank * 8 + file

\* Square::offset
SquareOffset(sq, o) ==
    LET file == FileOf(sq) + o[1]
        rank == RankOf(sq) + o[2]
    IN  IF file < 0 \/ file > 7 \/ rank < 0 \/ rank > 7 THEN None
        ELSE Some(SquareFrom(rank, file))

\* BitBoard::shift: bits pushed over an edge of the board are lost
Shift(bb, o) ==
    {Unwrap(SquareOffset(sq, o)) : sq \in {t \in bb : IsSome(SquareOffset(t, o))}}

\* BitBoard::first_one, BitBoard::last_one
FirstOne(bb) == IF bb = {} THEN None ELSE Some(CHOOSE a \in bb : \A b \in bb : a <= b)

LastOne(bb) == IF bb = {} THEN None ELSE Some(CHOOSE a \in bb : \A b \in bb : a >= b)

RANK_MASKS == [r \in 0 .. 7 |-> {sq \in Squares : RankOf(sq) = r}]

FILE_MASKS == [f \in 0 .. 7 |-> {sq \in Squares : FileOf(sq) = f}]

OpposingColor(color) == IF color = "White" THEN "Black" ELSE "White"

Forward(color) == IF color = "White" THEN <<0, 1>> ELSE <<0, -1>>

Backward(color) == IF color = "White" THEN <<0, -1>> ELSE <<0, 1>>

\* Direction as Offset
DirectionOffset ==
    [North |-> <<0, 1>>, South |-> <<0, -1>>, East |-> <<1, 0>>, West |-> <<-1, 0>>,
     NorthEast |-> <<1, 1>>, NorthWest |-> <<-1, 1>>,
     SouthEast |-> <<1, -1>>, SouthWest |-> <<-1, -1>>]

Directions == DOMAIN DirectionOffset

RECURSIVE ComputeRay(_, _)
ComputeRay(square, direction) ==
    LET next == SquareOffset(square, DirectionOffset[direction])
    IN  IF IsSome(next) THEN {Unwrap(next)} \cup ComputeRay(Unwrap(next), direction)
        ELSE {}

RAYS == [d \in Directions |-> [sq \in Squares |-> ComputeRay(sq, d)]]

\* the squares the offsets lead to from a square
Jumps(square, offsets) ==
    {Unwrap(SquareOffset(square, o)) : o \in {q \in offsets : IsSome(SquareOffset(square, q))}}

KNIGHT_ATTACKS ==
    [sq \in Squares |->
        Jumps(sq, {<<1, 2>>, <<2, 1>>, <<2, -1>>, <<1, -2>>,
                   <<-1, -2>>, <<-2, -1>>, <<-2, 1>>, <<-1, 2>>})]

KING_ATTACKS ==
    [sq \in Squares |->
        Jumps(sq, {<<1, 1>>, <<1, 0>>, <<1, -1>>, <<0, -1>>,
                   <<-1, -1>>, <<-1, 0>>, <<-1, 1>>, <<0, 1>>})]

PAWN_ATTACKS ==
    [c \in Colors |-> [sq \in Squares |->
        IF c = "White" THEN Jumps(sq, {<<-1, 1>>, <<1, 1>>})
        ELSE Jumps(sq, {<<-1, -1>>, <<1, -1>>})]]

ROOK_SLIDE_MASKS ==
    [sq \in Squares |->
        (RAYS["West"][sq] \ FILE_MASKS[0]) \cup (RAYS["East"][sq] \ FILE_MASKS[7])
        \cup (RAYS["North"][sq] \ RANK_MASKS[7]) \cup (RAYS["South"][sq] \ RANK_MASKS[0])]

BISHOP_SLIDE_MASKS ==
    [sq \in Squares |->
        (RAYS["NorthWest"][sq] \ (FILE_MASKS[0] \cup RANK_MASKS[7]))
        \cup (RAYS["SouthWest"][sq] \ (FILE_MASKS[0] \cup RANK_MASKS[0]))
        \cup (RAYS["NorthEast"][sq] \ (FILE_MASKS[7] \cup RANK_MASKS[7]))
        \cup (RAYS["SouthEast"][sq] \ (FILE_MASKS[7] \cup RANK_MASKS[0]))]

\* one step of compute_*_attacks_unoptimized: the ray is added, and what
\* lies behind its blocker is taken away; the blocker is the first or the
\* last set bit of the ray's blockers
AddRay(attacks, square, direction, blockers, first) ==
    LET ray == RAYS[direction][square]
        bit == IF first THEN FirstOne(ray \cap blockers) ELSE LastOne(ray \cap blockers)
    IN  IF IsSome(bit) THEN (attacks \cup ray) \ RAYS[direction][Unwrap(bit)]
        ELSE attacks \cup ray

ComputeRookAttacksUnoptimized(square, blockers) ==
    LET up == AddRay({}, square, "North", blockers, TRUE)
        down == AddRay(up, square, "South", blockers, FALSE)
        left == AddRay(down, square, "West", blockers, FALSE)
    IN  AddRay(left, square, "East", blockers, TRUE)

ComputeBishopAttacksUnoptimized(square, blockers) ==
    LET nw == AddRay({}, square, "NorthWest", blockers, TRUE)
        sw == AddRay(nw, square, "SouthWest", blockers, FALSE)
        ne == AddRay(sw, square, "NorthEast", blockers, TRUE)
    IN  AddRay(ne, square, "SouthEast", blockers, FALSE)

\* the magic table of a square holds, at the key of every set of blockers
\* within the slide mask, the unoptimized attacks for these blockers
ComputeRookAttacks(square, occupancy) ==
    ComputeRookAttacksUnoptimized(square, occupancy \cap ROOK_SLIDE_MASKS[square])

ComputeBishopAttacks(square, occupancy) ==
    ComputeBishopAttacksUnoptimized(square, occupancy \cap BISHOP_SLIDE_MASKS[square])

ComputeQueenAttacks(square, occupancy) ==
    ComputeRookAttacks(square, occupancy) \cup ComputeBishopAttacks(square, occupancy)

\* AttackGenerator::compute
Compute(color, piece, square, occupancy) ==
    CASE piece = "Pawn" -> PAWN_ATTACKS[color][square]
      [] piece = "Knight" -> KNIGHT_ATTACKS[square]
      [] piece = "Bishop" -> ComputeBishopAttacks(square, occupancy)
      [] piece = "Rook" -> ComputeRookAttacks(square, occupancy)
      [] piece = "Queen" -> ComputeQueenAttacks(square, occupancy)
      [] piece = "King" -> KING_ATTACKS[square]

(***************************************************************************)
(* Board: piece_occupancy, a bit board for every colour and piece.         *)
(***************************************************************************)
Occupancy(board) == UNION {board[c][p] : c \in Colors, p \in Pieces}

ColoredOccupancy(board, color) == UNION {board[color][p] : p \in Pieces}

\* Board::piece_at: the first piece index, white before black and in the
\* order of Piece::ALL, whose bit board has the square
PieceAt(board, square) ==
    LET Rank2(c, i) == (IF c = "White" THEN 0 ELSE 6) + i
        hits == {<<c, i>> \in Colors \X DOMAIN PieceAll : square \in board[c][PieceAll[i]]}
    IN  IF hits = {} THEN None
        ELSE LET h == CHOOSE a \in hits :
                          \A b \in hits : Rank2(a[1], a[2]) <= Rank2(b[1], b[2])
             IN  Some([color |-> h[1], piece |-> PieceAll[h[2]]])

\* AttackMap::from_occupancy(..).all, the value of Board::colored_attacks
ColoredAttacks(board, color) ==
    UNION {Compute(color, p, sq, Occupancy(board)) : <<p, sq>> \in
              {<<q, t>> \in Pieces \X Squares : t \in board[color][q]}}
    \ ColoredOccupancy(board, color)

KING_ORIGINS == [White |-> 4, Black |-> 60]

CASTLE_DESTS == [White |-> [King |-> 6, Queen |-> 2], Black |-> [King |-> 62, Queen |-> 58]]

CASTLE_PATH_MASKS ==
    [King |-> [White |-> {5, 6}, Black |-> {61, 62}],
     Queen |-> [White |-> {1, 2, 3}, Black |-> {57, 58, 59}]]

\* masks that let the king pass any square
CASTLE_CHECK_MASKS_NONE ==
    [King |-> [White |-> {}, Black |-> {}], Queen |-> [White |-> {}, Black |-> {}]]

CASTLE_CHECK_MASKS ==
    [King |-> [White |-> {4, 5, 6}, Black |-> {60, 61, 62}],
     Queen |-> [White |-> {2, 3, 4}, Black |-> {58, 59, 60}]]

(***************************************************************************)
(* Move: the fields of the packed bit set.                                 *)
(***************************************************************************)
AbsDistanceTo(a, b) == IF a >= b THEN a - b ELSE b - a

ByMoving(color, piece, origin, dest) ==
    [piece |-> piece, origin |-> origin, dest |-> dest, color |-> color = "White",
     capture |-> None, promotion |-> None, en_passant |-> FALSE,
     double_pawn |-> piece = "Pawn" /\ AbsDistanceTo(RankOf(origin), RankOf(dest)) > 1,
     castle_queenside |-> FALSE, castle_kingside |-> FALSE]

ByCapturing(color, piece, origin, dest, capturing) ==
    [ByMoving(color, piece, origin, dest) EXCEPT !.capture = Some(capturing)]

ByPromoting(color, piece, origin, dest, promotion) ==
    [ByMoving(color, piece, origin, dest) EXCEPT !.promotion = Some(promotion)]

ByCapturePromoting(color, piece, origin, dest, capturing, promotion) ==
    [ByMoving(color, piece, origin, dest) EXCEPT !.capture = Some(capturing),
                                                 !.promotion = Some(promotion)]

ByEnPassant(color, piece, origin, dest) ==
    [ByMoving(color, piece, origin, dest) EXCEPT !.en_passant = TRUE,
                                                 !.capture = Some("Pawn")]

ByCastling(color, side) ==
    [ByMoving(color, "King", KING_ORIGINS[color], CASTLE_DESTS[color][side])
        EXCEPT !.castle_queenside = (side = "Queen"), !.castle_kingside = (side = "King")]

CastleSide(mv) ==
    IF mv.castle_queenside THEN Some("Queen")
    ELSE IF mv.castle_kingside THEN Some("King")
    ELSE None

IsCastle(mv, side) == CastleSide(mv) = Some(side)

(***************************************************************************)
(* State::by_performing_move                                               *)
(***************************************************************************)
Ok(value) == [ok |-> TRUE, value |-> Some(value), error |-> ""]

Err(error) == [ok |-> FALSE, value |-> None, error |-> error]

\* a set that leaves the other squares and never clears one
SetBitOnly(map, color, piece, square, value) ==
    [map EXCEPT ![color][piece] = @ \cup {square}]

\* map[PieceIndex::new(color, piece)].set(square, value)
SetBit(map, color, piece, square, value) ==
    [map EXCEPT ![color][piece] = IF value THEN @ \cup {square} ELSE @ \ {square}]

\* rights that a move of the king leaves as they are
KeptRightsOfKing(state, mv) == state.castle_rights

\* `if mv.piece() == Piece::King { castle_rights[turn_to_move] = NONE }`
KeptRights(state, mv) ==
    IF mv.piece = "King"
    THEN [state.castle_rights EXCEPT
             ![state.turn_to_move] = [kingside |-> FALSE, queenside |-> FALSE]]
    ELSE state.castle_rights

\* a capture on the square the capturing pawn moves to
CaptureOnTarget(en_passant_target, moving_color) == Some(en_passant_target)

\* `en_passant_target.offset(moving_color.backward())`
CaptureSquare(en_passant_target, moving_color) ==
    SquareOffset(en_passant_target, Backward(moving_color))

\* variant: every move of a pawn leaves a target behind its destination
EnPassantTargetOfPawn(mv, moving_color) ==
    IF mv.piece = "Pawn" THEN SquareOffset(mv.dest, Backward(moving_color)) ELSE None

\* `if mv.is_double_pawn() { mv.destination().offset(backward) } else { None }`
EnPassantTargetAfter(mv, moving_color) ==
    IF mv.double_pawn THEN SquareOffset(mv.dest, Backward(moving_color)) ELSE None

ByPerformingMove(state, mv) ==
    LET moving_color == state.turn_to_move
        opposing_color == OpposingColor(moving_color)
        target == state.en_passant_target
        capture_square ==
            IF IsSome(target) THEN CaptureSquare(Unwrap(target), moving_color)
            ELSE None
        moved == SetBit(SetBit(state.board, moving_color, mv.piece, mv.origin, FALSE),
                        moving_color, mv.piece, mv.dest, TRUE)
        captured ==
            IF mv.en_passant
            THEN SetBit(moved, opposing_color, "Pawn", Unwrap(capture_square), FALSE)
            ELSE IF IsSome(mv.capture)
            THEN SetBit(moved, opposing_color, Unwrap(mv.capture), mv.dest, FALSE)
            ELSE moved
        promoted ==
            IF IsSome(mv.promotion)
            THEN SetBit(SetBit(captured, moving_color, mv.piece, mv.dest, FALSE),
                        moving_color, Unwrap(mv.promotion), mv.dest, TRUE)
            ELSE captured
        rank == RankOf(mv.origin)
        board ==
            IF IsCastle(mv, "King")
            THEN SetBit(SetBit(promoted, moving_color, "Rook", SquareFrom(rank, 7), FALSE),
                        moving_color, "Rook", SquareFrom(rank, 5), TRUE)
            ELSE IF IsCastle(mv, "Queen")
            THEN SetBit(SetBit(promoted, moving_color, "Rook", SquareFrom(rank, 0), FALSE),
                        moving_color, "Rook", SquareFrom(rank, 3), TRUE)
            ELSE promoted
        kept == KeptRights(state, mv)
        castle_rights ==
            [Black |-> [kingside |-> kept.Black.kingside /\ 63 \in board["Black"]["Rook"],
                        queenside |-> kept.Black.queenside /\ 56 \in board["Black"]["Rook"]],
             White |-> [kingside |-> kept.White.kingside /\ 7 \in board["White"]["Rook"],
                        queenside |-> kept.White.queenside /\ 0 \in board["White"]["Rook"]]]
    IN  IF mv.en_passant /\ ~IsSome(capture_square) THEN Err("IllegalEnPassant")
        ELSE Ok([board |-> board,
                 castle_rights |-> castle_rights,
                 turn_to_move |-> opposing_color,
                 en_passant_target |-> EnPassantTargetAfter(mv, moving_color),
                 clock |->
                     [halfmove_clock |->
                          IF IsSome(mv.capture) \/ mv.piece = "Pawn" THEN 0
                          ELSE state.clock.halfmove_clock + 1,
                      fullmove_number |->
                          IF moving_color = "Black" THEN state.clock.fullmove_number + 1
                          ELSE state.clock.fullmove_number]])

(***************************************************************************)
(* MoveGenerator.  The vector of moves is kept as a set: no move is        *)
(* generated twice, and the order of the moves plays no part in what       *)
(* follows.                                                                *)
(***************************************************************************)
PROMOTION_TYPES == {"Queen", "Rook", "Bishop", "Knight"}

OwnBackrankMask(state) ==
    IF state.turn_to_move = "White" THEN RANK_MASKS[7] ELSE RANK_MASKS[0]

OwnPawnHomeRankMask(state) ==
    IF state.turn_to_move = "White" THEN RANK_MASKS[1] ELSE RANK_MASKS[6]

OpposingPieces(state) == ColoredOccupancy(state.board, OpposingColor(state.turn_to_move))

OpposingAttacks(state) == ColoredAttacks(state.board, OpposingColor(state.turn_to_move))

Vacancy(board) == Squares \ Occupancy(board)

\* GameStateHelper::expand_moves
ExpandMoves(state, origin, destinations, piece) ==
    {IF IsSome(PieceAt(state.board, target))
     THEN ByCapturing(state.turn_to_move, piece, origin, target,
                      Unwrap(PieceAt(state.board, target)).piece)
     ELSE ByMoving(state.turn_to_move, piece, origin, target) : target \in destinations}

\* the captures of compute_pawn_moves towards one side, with the offset that
\* leads from a target back to the pawn
PawnCaptures(state, file_offset, inverted_file_offset) ==
    LET color == state.turn_to_move
        back == Backward(color)
        inverted_capture_offset ==
            <<back[1] + inverted_file_offset[1], back[2] + inverted_file_offset[2]>>
        Origin(target) == Unwrap(SquareOffset(target, inverted_capture_offset))
        Captured(target) == Unwrap(PieceAt(state.board, target)).piece
        attacks == Shift(Shift(state.board[color]["Pawn"], Forward(color)), file_offset)
        attacks_with_promotion ==
            (attacks \cap OwnBackrankMask(state)) \cap OpposingPieces(state)
        attacks_without_promotion ==
            (attacks \ OwnBackrankMask(state)) \cap OpposingPieces(state)
        attacks_with_en_passant ==
            attacks \cap (IF IsSome(state.en_passant_target)
                          THEN {Unwrap(state.en_passant_target)} ELSE {})
    IN  {ByCapturing(color, "Pawn", Origin(t), t, Captured(t)) :
            t \in attacks_without_promotion}
        \cup {ByCapturePromoting(color, "Pawn", Origin(t), t, Captured(t), p) :
                t \in attacks_with_promotion, p \in PROMOTION_TYPES}
        \cup {ByEnPassant(color, "Pawn", Origin(t), t) :
                t \in (IF IsSome(FirstOne(attacks_with_en_passant))
                       THEN {Unwrap(FirstOne(attacks_with_en_passant))} ELSE {})}

ComputePawnMoves(state) ==
    LET color == state.turn_to_move
        pawns == state.board[color]["Pawn"]
        vacancy == Vacancy(state.board)
        Back(target) == Unwrap(SquareOffset(target, Backward(color)))
        positions == Shift(pawns, Forward(color)) \cap vacancy
        home == pawns \cap OwnPawnHomeRankMask(state)
        doubles == Shift(Shift(home, Forward(color)) \cap vacancy, Forward(color))
                       \cap vacancy
    IN  {ByMoving(color, "Pawn", Back(t), t) : t \in positions \ OwnBackrankMask(state)}
        \cup {ByPromoting(color, "Pawn", Back(t), t, p) :
                t \in positions \cap OwnBackrankMask(state), p \in PROMOTION_TYPES}
        \cup {ByMoving(color, "Pawn", Back(Back(t)), t) : t \in doubles}
        \cup PawnCaptures(state, <<1, 0>>, <<-1, 0>>)
        \cup PawnCaptures(state, <<-1, 0>>, <<1, 0>>)

ComputeKnightMoves(state) ==
    UNION {ExpandMoves(state, square,
                       KNIGHT_ATTACKS[square]
                           \cap (OpposingPieces(state) \cup Vacancy(state.board)),
                       "Knight") :
              square \in state.board[state.turn_to_move]["Knight"]}

\* the king moves, given helper.opposing_attacks()
KingMovesAvoiding(state, opposing_attacks) ==
    LET color == state.turn_to_move
        rights == state.castle_rights[color]
    IN  UNION {ExpandMoves(state, origin,
                           (KING_ATTACKS[origin]
                               \cap (OpposingPieces(state) \cup Vacancy(state.board)))
                               \ opposing_attacks,
                           "King") :
                  origin \in state.board[color]["King"]}
        \cup {ByCastling(color, side) : side \in
                 {s \in {"King", "Queen"} :
                     /\ IF s = "King" THEN rights.kingside ELSE rights.queenside
                     /\ Occupancy(state.board) \cap CASTLE_PATH_MASKS[s][color] = {}
                     /\ opposing_attacks \cap CASTLE_CHECK_MASKS[s][color] = {}}}

ComputeKingMoves(state) == KingMovesAvoiding(state, OpposingAttacks(state))

\* compute_bishop_moves, compute_rook_moves and compute_queen_moves
ComputeSlidingMoves(state, piece) ==
    UNION {ExpandMoves(state, origin,
                       Compute(state.turn_to_move, piece, origin, Occupancy(state.board))
                           \ ColoredOccupancy(state.board, state.turn_to_move),
                       piece) :
              origin \in state.board[state.turn_to_move][piece]}

ComputePsuedoLegalMoves(state) ==
    ComputePawnMoves(state) \cup ComputeKnightMoves(state) \cup ComputeKingMoves(state)
    \cup ComputeSlidingMoves(state, "Bishop") \cup ComputeSlidingMoves(state, "Rook")
    \cup ComputeSlidingMoves(state, "Queen")

\* the test of try_as_legal_move on the state the move leads to
LegalIfKingSafe(color, mv, next_state) ==
    IF next_state.board[color]["King"]
           \cap ColoredAttacks(next_state.board, next_state.turn_to_move) = {}
    THEN Some([move |-> mv, state |-> next_state])
    ELSE None

\* variant: every pseudo-legal move is taken as legal
TryAsLegalMoveUnchecked(state, mv) ==
    Some([move |-> mv, state |-> Unwrap(ByPerformingMove(state, mv).value)])

\* PseudoLegalMove::try_as_legal_move; the unwrap of the Result is safe for
\* the moves generated, whose en passant moves come with a target
TryAsLegalMove(state, mv) ==
    LegalIfKingSafe(state.turn_to_move, mv, Unwrap(ByPerformingMove(state, mv).value))

\* MoveGenerator::compute_legal_moves: the MoveResults of the buffer
ComputeLegalMoves(state) ==
    {Unwrap(r) : r \in {TryAsLegalMove(state, m) : m \in ComputePsuedoLegalMoves(state)}
                          \ {None}}

(***************************************************************************)
(* Positions.  A square is named by its file letter and its rank digit.    *)
(***************************************************************************)
FileLetters == <<"a", "b", "c", "d", "e", "f", "g", "h">>

RankDigits == <<"1", "2", "3", "4", "5", "6", "7", "8">>

\* File::from_char (the letter is upper-cased first) and Rank::from_char
FileFromChar(c) ==
    LET upper == <<"A", "B", "C", "D", "E", "F", "G", "H">>
        hit == {i \in 1 .. 8 : c = FileLetters[i] \/ c = upper[i]}
    IN  IF hit = {} THEN None ELSE Some((CHOOSE i \in hit : TRUE) - 1)

RankFromChar(c) ==
    LET hit == {i \in 1 .. 8 : c = RankDigits[i]}
    IN  IF hit = {} THEN None ELSE Some((CHOOSE i \in hit : TRUE) - 1)

\* Square::try_from(&str), the string given as the sequence of its characters
SquareTryFrom(s) ==
    IF Len(s) # 2 THEN None
    ELSE IF ~IsSome(FileFromChar(s[1])) \/ ~IsSome(RankFromChar(s[2])) THEN None
    ELSE Some(SquareFrom(Unwrap(RankFromChar(s[2])), Unwrap(FileFromChar(s[1]))))

At(file, rank) == Unwrap(SquareTryFrom(<<file, rank>>))

\* Board::new for pieces given as <<color, piece, square>>
BoardOf(placed) ==
    [c \in Colors |-> [p \in Pieces |->
        {pl[3] : pl \in {q \in placed : q[1] = c /\ q[2] = p}}]]

NoRights == [kingside |-> FALSE, queenside |-> FALSE]

\* State::new with Clock::default
StateOf(placed, turn, white_rights, black_rights) ==
    [board |-> BoardOf(placed),
     castle_rights |-> [Black |-> black_rights, White |-> white_rights],
     turn_to_move |-> turn,
     en_passant_target |-> None,
     clock |-> [halfmove_clock |-> 0, fullmove_number |-> 1]]

\* 4r2k/8/8/8/8/8/4N3/4K3 w - - 0 1: the knight is pinned
PinnedKnight ==
    StateOf({<<"White", "King", At("e", "1")>>, <<"White", "Knight", At("e", "2")>>,
             <<"Black", "King", At("h", "8")>>, <<"Black", "Rook", At("e", "8")>>},
            "White", NoRights, NoRights)

\* 7k/3p4/8/K3P2r/8/8/8/8 b - - 0 1: after d7d5 the capture en passant
\* would open the fifth rank
EnPassantPin ==
    StateOf({<<"White", "King", At("a", "5")>>, <<"White", "Pawn", At("e", "5")>>,
             <<"Black", "King", At("h", "8")>>, <<"Black", "Rook", At("h", "5")>>,
             <<"Black", "Pawn", At("d", "7")>>},
            "Black", NoRights, NoRights)

\* k7/8/1b6/8/8/8/8/4K2R w K - 0 1: the bishop looks at g1
CastleThroughCheck ==
    StateOf({<<"White", "King", At("e", "1")>>, <<"White", "Rook", At("h", "1")>>,
             <<"Black", "King", At("a", "8")>>, <<"Black", "Bishop", At("b", "6")>>},
            "White", [kingside |-> TRUE, queenside |-> FALSE], NoRights)

\* r6k/1P6/8/8/8/8/8/7K w - - 0 1: the pawn promotes with or without capture
Promotion ==
    StateOf({<<"White", "King", At("h", "1")>>, <<"White", "Pawn", At("b", "7")>>,
             <<"Black", "King", At("h", "8")>>, <<"Black", "Rook", At("a", "8")>>},
            "White", NoRights, NoRights)

\* r3k2r/8/8/8/8/8/8/R3K2R w KQkq - 0 1
BothCastles ==
    StateOf({<<"White", "King", At("e", "1")>>, <<"White", "Rook", At("a", "1")>>,
             <<"White", "Rook", At("h", "1")>>, <<"Black", "King", At("e", "8")>>,
             <<"Black", "Rook", At("a", "8")>>, <<"Black", "Rook", At("h", "8")>>},
            "White", [kingside |-> TRUE, queenside |-> TRUE],
            [kingside |-> TRUE, queenside |-> TRUE])

\* R3k3/8/4K3/8/8/8/8/8 b - - 0 1: mate on the back rank; f8, behind the king
\* on the line of the rook, is free
BackRankMate ==
    StateOf({<<"White", "King", At("e", "6")>>, <<"White", "Rook", At("a", "8")>>,
             <<"Black", "King", At("e", "8")>>},
            "Black", NoRights, NoRights)

\* 7k/5Q2/6K1/8/8/8/8/8 b - - 0 1: stalemate
Stalemate ==
    StateOf({<<"White", "King", At("g", "6")>>, <<"White", "Queen", At("f", "7")>>,
             <<"Black", "King", At("h", "8")>>},
            "Black", NoRights, NoRights)

\* State::default(): rnbqkbnr/pppppppp/8/8/8/8/PPPPPPPP/RNBQKBNR w KQkq - 0 1
DefaultState ==
    LET back == <<"Rook", "Knight", "Bishop", "Queen", "King", "Bishop", "Knight", "Rook">>
    IN  StateOf({<<"White", back[f + 1], SquareFrom(0, f)>> : f \in 0 .. 7}
                \cup {<<"White", "Pawn", SquareFrom(1, f)>> : f \in 0 .. 7}
                \cup {<<"Black", "Pawn", SquareFrom(6, f)>> : f \in 0 .. 7}
                \cup {<<"Black", back[f + 1], SquareFrom(7, f)>> : f \in 0 .. 7},
                "White", [kingside |-> TRUE, queenside |-> TRUE],
                [kingside |-> TRUE, queenside |-> TRUE])

\* a state with the en passant target its FEN names
WithTarget(state, square) == [state EXCEPT !.en_passant_target = Some(square)]

\* 4k3/8/8/3pP3/8/8/8/4K3 w - d6 0 1
WhiteTakesEnPassant ==
    WithTarget(StateOf({<<"White", "King", At("e", "1")>>, <<"White", "Pawn", At("e", "5")>>,
                        <<"Black", "King", At("e", "8")>>, <<"Black", "Pawn", At("d", "5")>>},
                       "White", NoRights, NoRights),
               At("d", "6"))

\* 4k3/8/8/8/3pP3/8/8/4K3 b - e3 0 1
BlackTakesEnPassant ==
    WithTarget(StateOf({<<"White", "King", At("e", "1")>>, <<"White", "Pawn", At("e", "4")>>,
                        <<"Black", "King", At("e", "8")>>, <<"Black", "Pawn", At("d", "4")>>},
                       "Black", NoRights, NoRights),
               At("e", "3"))

StartPositions ==
    {DefaultState, PinnedKnight, EnPassantPin, CastleThroughCheck, Promotion,
     BothCastles, BackRankMate, Stalemate, WhiteTakesEnPassant, BlackTakesEnPassant}

\* plies of a game
MaxPly == 2

(***************************************************************************)
(* The evaluator.  An f32 of the code is a fraction here: the weights 0.8  *)
(* and 0.2 are 4/5 and 1/5, the end game weight is a number of 160ths, and *)
(* `as i32` cuts the fraction towards zero.                                *)
(***************************************************************************)
\* (x as f32 / den) as i32
Trunc(num, den) == IF num >= 0 THEN num \div den ELSE -((-num) \div den)

\* ONE_PAWN * PIECE_PAWN_WORTHS[piece]
PIECE_PAWN_WORTHS ==
    [Pawn |-> 100, Knight |-> 300, Bishop |-> 350, Rook |-> 500, Queen |-> 900,
     King |-> 10000]

PAWN_MAP ==
    << 0,  0,  0,  0,  0,  0,  0,  0,
      50, 50, 50, 50, 50, 50, 50, 50,
      10, 10, 20, 30, 30, 20, 10, 10,
       5,  5, 10, 25, 25, 10,  5,  5,
       0,  0,  0, 20, 20,  0,  0,  0,
       5, -5,-10,  0,  0,-10, -5,  5,
       5, 10, 10,-20,-20, 10, 10,  5,
       0,  0,  0,  0,  0,  0,  0,  0>>

KNIGHT_MAP ==
    <<-50,-40,-30,-30,-30,-30,-40,-50,
      -40,-20,  0,  0,  0,  0,-20,-40,
      -30,  0, 10, 15, 15, 10,  0,-30,
      -30,  5, 15, 20, 20, 15,  5,-30,
      -30,  0, 15, 20, 20, 15,  0,-30,
      -30,  5, 10, 15, 15, 10,  5,-30,
      -40,-20,  0,  5,  5,  0,-20,-40,
      -50,-40,-30,-30,-30,-30,-40,-50>>

BISHOP_MAP ==
    <<-20,-10,-10,-10,-10,-10,-10,-20,
      -10,  0,  0,  0,  0,  0,  0,-10,
      -10,  0,  5, 10, 10,  5,  0,-10,
      -10,  5,  5, 10, 10,  5,  5,-10,
      -10,  0, 10, 10, 10, 10,  0,-10,
      -10, 10, 10, 10, 10, 10, 10,-10,
      -10,  5,  0,  0,  0,  0,  5,-10,
      -20,-10,-10,-10,-10,-10,-10,-20>>

ROOK_MAP ==
    << 0,  0,  0,  0,  0,  0,  0,  0,
       5, 10, 10, 10, 10, 10, 10,  5,
      -5,  0,  0,  0,  0,  0,  0, -5,
      -5,  0,  0,  0,  0,  0,  0, -5,
      -5,  0,  0,  0,  0,  0,  0, -5,
      -5,  0,  0,  0,  0,  0,  0, -5,
      -5,  0,  0,  0,  0,  0,  0, -5,
       0,  0,  0,  5,  5,  0,  0,  0>>

QUEEN_MAP ==
    <<-20,-10,-10, -5, -5,-10,-10,-20,
      -10,  0,  0,  0,  0,  0,  0,-10,
      -10,  0,  5,  5,  5,  5,  0,-10,
       -5,  0,  5,  5,  5,  5,  0, -5,
        0,  0,  5,  5,  5,  5,  0, -5,
      -10,  5,  5,  5,  5,  5,  0,-10,
      -10,  0,  5,  0,  0,  0,  0,-10,
      -20,-10,-10, -5, -5,-10,-10,-20>>

KING_MIDDLE_GAME_MAP ==
    <<-30,-40,-40,-50,-50,-40,-40,-30,
      -30,-40,-40,-50,-50,-40,-40,-30,
      -30,-40,-40,-50,-50,-40,-40,-30,
      -30,-40,-40,-50,-50,-40,-40,-30,
      -20,-30,-30,-40,-40,-30,-30,-20,
      -10,-20,-20,-20,-20,-20,-20,-10,
       20, 20,  0,  0,  0,  0, 20, 20,
       20, 30, 10,  0,  0, 10, 30, 20>>

KING_END_GAME_MAP ==
    <<-50,-40,-30,-20,-20,-30,-40,-50,
      -30,-20,-10,  0,  0,-10,-20,-30,
      -30,-10, 20, 30, 30, 20,-10,-30,
      -30,-10, 30, 40, 40, 30,-10,-30,
      -30,-10, 30, 40, 40, 30,-10,-30,
      -30,-10, 20, 30, 30, 20,-10,-30,
      -30,-30,  0,  0,  0,  0,-30,-30,
      -50,-30,-30,-30,-30,-30,-30,-50>>

\* the middle game map and the end game map of each piece
PIECE_SQUARE_MAP ==
    [Pawn |-> <<PAWN_MAP, PAWN_MAP>>, Knight |-> <<KNIGHT_MAP, KNIGHT_MAP>>,
     Bishop |-> <<BISHOP_MAP, BISHOP_MAP>>, Rook |-> <<ROOK_MAP, ROOK_MAP>>,
     Queen |-> <<QUEEN_MAP, QUEEN_MAP>>,
     King |-> <<KING_MIDDLE_GAME_MAP, KING_END_GAME_MAP>>]

\* Square::flip_rank
FlipRank(sq) == SquareFrom(7 - RankOf(sq), FileOf(sq))

\* Square::white_at_bottom_index: the maps are written with rank 8 first
WhiteAtBottomIndex(sq) == SquareFrom(7 - RankOf(sq), FileOf(sq))

\* Square::manhattan_distance_to
ManhattanDistanceTo(a, b) ==
    AbsDistanceTo(FileOf(a), FileOf(b)) + AbsDistanceTo(RankOf(a), RankOf(b))

\* Board::is_check
IsCheck(board, color) ==
    board[color]["King"] \cap ColoredAttacks(board, OpposingColor(color)) # {}

\* StateVariation::piece_counts
PieceCount(state, color, piece) == Cardinality(state.board[color][piece])

\* StateVariation::color_counts
ColorCount(state, color) == Cardinality(ColoredOccupancy(state.board, color))

\* StateVariation::end_game_weight, in 160ths
EndGameWeight(state) ==
    LET CountPieces(piece) ==
            PieceCount(state, "White", piece) + PieceCount(state, "Black", piece)
    IN  160 - 6 * CountPieces("Pawn") - 16 * CountPieces("Queen")
            - Cardinality(Occupancy(state.board))

\* evaluate_piece_worths::evaluate
EvaluatePieceWorths(state, perspective) ==
    SumOver([piece \in Pieces |->
                PIECE_PAWN_WORTHS[piece] * PieceCount(state, perspective, piece)],
            Pieces)

\* evaluate_piece_squares::evaluate: the sum of the interpolated values, cut
PieceSquareSum(state, perspective, weight) ==
    LET Index(sq) == WhiteAtBottomIndex(IF perspective = "White" THEN sq
                                        ELSE FlipRank(sq)) + 1
        Lerp(piece, sq) ==
            LET e1 == PIECE_SQUARE_MAP[piece][1][Index(sq)]
                e2 == PIECE_SQUARE_MAP[piece][2][Index(sq)]
            IN  (e2 - e1) * weight + e1 * 160
    IN  SumOver([piece \in Pieces |->
                    SumOver([sq \in Squares |-> Lerp(piece, sq)],
                            state.board[perspective][piece])],
                Pieces)

EvaluatePieceSquares(state, perspective) ==
    Trunc(PieceSquareSum(state, perspective, EndGameWeight(state)), 160)

\* evaluate_force_king_to_edge::evaluate
KingToEdge(state, perspective, weight) ==
    LET ours == state.board[perspective]["King"]
        theirs == state.board[OpposingColor(perspective)]["King"]
    IN  IF weight < 120 THEN 0
        ELSE IF ColorCount(state, perspective)
                    < ColorCount(state, OpposingColor(perspective)) + 1 THEN 0
        ELSE IF ours = {} \/ theirs = {} THEN 0
        ELSE LET our_king_location == Unwrap(FirstOne(ours))
                 their_king_location == Unwrap(FirstOne(theirs))
                 kings_distance ==
                     ManhattanDistanceTo(our_king_location, their_king_location)
                 rank_distance ==
                     Min(AbsDistanceTo(RankOf(their_king_location), 0),
                         AbsDistanceTo(RankOf(their_king_location), 7))
                 file_distance ==
                     Min(AbsDistanceTo(FileOf(their_king_location), 0),
                         AbsDistanceTo(FileOf(their_king_location), 7))
                 absolute_eval == 10 * (rank_distance + file_distance) - kings_distance
             IN  Trunc(absolute_eval * weight, 160)

EvaluateForceKingToEdge(state, perspective) ==
    KingToEdge(state, perspective, EndGameWeight(state))

\* evaluate_bad_pawns::evaluate
EvaluateBadPawns(state, perspective) ==
    LET our_pawns == state.board[perspective]["Pawn"]
        Doubled(file) == Cardinality(our_pawns \cap FILE_MASKS[file]) > 1
        Isolated(file) ==
            \A f \in {file - 1, file + 1} \cap (0 .. 7) : our_pawns \cap FILE_MASKS[f] = {}
    IN  SumOver([file \in 0 .. 7 |->
                    (IF Doubled(file) THEN -40 ELSE 0)
                    + (IF Isolated(file) THEN -50 ELSE 0)],
                0 .. 7)

\* the loop over EVALUATORS: e1 - e2 of each function, times its weight
Heuristic(state, perspective) ==
    LET other == OpposingColor(perspective)
    IN  (EvaluatePieceWorths(state, perspective) - EvaluatePieceWorths(state, other))
        + Trunc((EvaluatePieceSquares(state, perspective)
                    - EvaluatePieceSquares(state, other)) * 4, 5)
        + (EvaluateForceKingToEdge(state, perspective)
              - EvaluateForceKingToEdge(state, other))
        + Trunc(EvaluateBadPawns(state, perspective) - EvaluateBadPawns(state, other), 5)

\* `king_has_move`: a free square next to the king that the opponent does
\* not attack while the king stands where it is
KingHasMove(state) ==
    LET king_square == Unwrap(FirstOne(state.board[state.turn_to_move]["King"]))
        valid_king_squares ==
            (KING_ATTACKS[king_square] \ Occupancy(state.board))
                \ OpposingAttacks(state)
    IN  valid_king_squares # {}

\* the value of a state without legal moves
Terminal(state, perspective, is_check) ==
    IF is_check
    THEN IF state.turn_to_move = perspective THEN NEG_INF ELSE POS_INF
    ELSE EVEN

\* the branch taken when the king has no move
WithoutKingMove(state, perspective, legal_moves) ==
    IF legal_moves = {}
    THEN Terminal(state, perspective, IsCheck(state.board, state.turn_to_move))
    ELSE Heuristic(state, perspective)

\* Evaluator::evaluate
Evaluate(state, perspective) ==
    IF ~KingHasMove(state)
    THEN WithoutKingMove(state, perspective, ComputeLegalMoves(state))
    ELSE Heuristic(state, perspective)

(***************************************************************************)
(* A game: the legal moves of the state are computed into the buffer, one  *)
(* of the MoveResults is taken and its state becomes the state.            *)
(***************************************************************************)
InitChess ==
    /\ tables = AccessNew
    /\ TTIdle
    /\ MapIdle
    /\ SearchIdle
    /\ TreeIdle
    /\ uci = UciOff
    /\ \E s \in StartPositions :
          game = [state |-> s, legal_moves |-> {}, generated |-> FALSE, ply |-> 0]

\* MoveGenerator::compute_legal_moves_into
ComputeLegalMovesInto ==
    /\ ~game.generated
    /\ game' = [game EXCEPT !.legal_moves = ComputeLegalMoves(game.state),
                            !.generated = TRUE]
    /\ UNCHANGED <<uci, offChess>>

\* the caller goes on with the state of a MoveResult
Play(result) ==
    /\ game.generated
    /\ game.ply < MaxPly
    /\ game' = [state |-> result.state, legal_moves |-> {}, generated |-> FALSE,
                ply |-> game.ply + 1]
    /\ UNCHANGED <<uci, offChess>>

NextChess ==
    \/ ComputeLegalMovesInto
    \/ \E result \in game.legal_moves : Play(result)

SpecChess == InitChess /\ [][NextChess]_vars

(***************************************************************************)
(* Properties of the move generator                                        *)
(***************************************************************************)
\* C1: every (move, next_state) pair that compute_legal_moves_into leaves in
\* the buffer has next_state = by_performing_move(state, move), and in
\* next_state no piece of the opponent attacks, by the rules of chess, a
\* square that holds a king of the side that moved: a knight a knight's jump
\* away, a king on a neighbouring square, a pawn diagonally in front of it,
\* a rook, bishop or queen along a free line.
C1_LegalMovesKeepKingSafe ==
    LET Abs(x) == IF x < 0 THEN -x ELSE x
        Sign(x) == IF x < 0 THEN -1 ELSE IF x > 0 THEN 1 ELSE 0
        Df(a, t) == FileOf(t) - FileOf(a)
        Dr(a, t) == RankOf(t) - RankOf(a)
        Steps(a, t) == IF Abs(Df(a, t)) >= Abs(Dr(a, t)) THEN Abs(Df(a, t))
                       ELSE Abs(Dr(a, t))
        FreeLine(board, a, t) ==
            \A k \in 1 .. (Steps(a, t) - 1) :
                (a + k * (Sign(Df(a, t)) + 8 * Sign(Dr(a, t)))) \notin Occupancy(board)
        Straight(a, t) == a # t /\ (Df(a, t) = 0 \/ Dr(a, t) = 0)
        Diagonal(a, t) == a # t /\ Abs(Df(a, t)) = Abs(Dr(a, t))
        Hits(board, color, piece, a, t) ==
            CASE piece = "Pawn" ->
                    Abs(Df(a, t)) = 1 /\ Dr(a, t) = (IF color = "White" THEN 1 ELSE -1)
              [] piece = "Knight" -> {Abs(Df(a, t)), Abs(Dr(a, t))} = {1, 2}
              [] piece = "King" -> Steps(a, t) = 1
              [] piece = "Rook" -> Straight(a, t) /\ FreeLine(board, a, t)
              [] piece = "Bishop" -> Diagonal(a, t) /\ FreeLine(board, a, t)
              [] piece = "Queen" ->
                    (Straight(a, t) \/ Diagonal(a, t)) /\ FreeLine(board, a, t)
        KingAttacked(board, color) ==
            \E t \in board[color]["King"], p \in Pieces :
                \E a \in board[OpposingColor(color)][p] :
                    Hits(board, OpposingColor(color), p, a, t)
    IN  game.generated =>
            \A r \in game.legal_moves :
                /\ ByPerformingMove(game.state, r.move) = Ok(r.state)
                /\ ~KingAttacked(r.state.board, game.state.turn_to_move)

\* the buffer holds the legal moves of a state reached in play, and the
\* filter has turned down a pseudo-legal move of that state
C1_Witness ==
    /\ game.generated
    /\ game.ply > 0
    /\ game.legal_moves # {}
    /\ \E m \in ComputePsuedoLegalMoves(game.state) : TryAsLegalMove(game.state, m) = None

(***************************************************************************)
(* MoveQuery and State::by_performing_moves                                *)
(***************************************************************************)
\* MoveQuery::new with set_origin, set_destination and, if any, set_promotion
MoveQueryOf(origin, destination, promotion) ==
    [piece |-> None,
     origin_rank |-> Some(RankOf(origin)), origin_file |-> Some(FileOf(origin)),
     dest_rank |-> Some(RankOf(destination)), dest_file |-> Some(FileOf(destination)),
     promotion |-> promotion, castle |-> None, is_capture |-> None]

\* MoveQuery::test
MoveQueryTest(query, m) ==
    LET Agrees(field, value) == IsSome(field) => Unwrap(field) = value
    IN  /\ Agrees(query.piece, m.piece)
        /\ Agrees(query.origin_rank, RankOf(m.origin))
        /\ Agrees(query.origin_file, FileOf(m.origin))
        /\ Agrees(query.dest_rank, RankOf(m.dest))
        /\ Agrees(query.dest_file, FileOf(m.dest))
        /\ Agrees(query.promotion,
                  IF IsSome(m.promotion) THEN Unwrap(m.promotion) ELSE m.piece)
        /\ IsSome(query.castle) => IsCastle(m, Unwrap(query.castle))
        /\ Agrees(query.is_capture, IsSome(m.capture))

\* a loop that takes some move of those the query selects
PerformAny(state, valid_moves) ==
    IF valid_moves = {} THEN Err("UnknownMove")
    ELSE ByPerformingMove(state, (CHOOSE r \in valid_moves : TRUE).move)

\* the match on valid_moves in the loop of by_performing_moves
PerformOnly(state, valid_moves) ==
    IF valid_moves = {} THEN Err("UnknownMove")
    ELSE IF Cardinality(valid_moves) > 1 THEN Err("AmbiguousMove")
    ELSE ByPerformingMove(state, (CHOOSE r \in valid_moves : TRUE).move)

\* one turn of the loop: the legal moves the query selects
PerformQuery(state, mv) ==
    PerformOnly(state, {r \in ComputeLegalMoves(state) : MoveQueryTest(mv, r.move)})

RECURSIVE ByPerformingMoves(_, _)

\* the end of a turn of the loop: `?` returns an error, the next move follows
\* a state
ThenPerforming(performed, moves) ==
    IF performed.ok THEN ByPerformingMoves(Unwrap(performed.value), moves)
    ELSE performed

ByPerformingMoves(state, moves) ==
    IF moves = << >> THEN Ok(state)
    ELSE ThenPerforming(PerformQuery(state, Head(moves)), Tail(moves))

(***************************************************************************)
(* Client::exec, the command loop of the UCI client.  A move token is the  *)
(* sequence of its characters.  The text of a FEN is given by the State it *)
(* parses to, or by None if try_from_notation rejects it.                  *)
(***************************************************************************)
\* the closure of filter_map: it panics if a slice of the token is out of
\* range, returns None if the token is turned down, else the MoveQuery
ParseMoveToken(m) ==
    LET origin == SquareTryFrom(SubSeq(m, 1, 2))
        destination == SquareTryFrom(SubSeq(m, 3, 4))
        promotion ==
            IF Len(m) < 5 THEN Some(None)
            ELSE CASE m[5] = "q" -> Some(Some("Queen"))
                   [] m[5] = "r" -> Some(Some("Rook"))
                   [] m[5] = "b" -> Some(Some("Bishop"))
                   [] m[5] = "n" -> Some(Some("Knight"))
                   [] OTHER -> None
        Panic == [panic |-> TRUE, query |-> None]
        Return(query) == [panic |-> FALSE, query |-> query]
    IN  IF Len(m) < 2 THEN Panic
        ELSE IF ~IsSome(origin) THEN Return(None)
        ELSE IF Len(m) < 4 THEN Panic
        ELSE IF ~IsSome(destination) THEN Return(None)
        ELSE IF ~IsSome(promotion) THEN Return(None)
        ELSE Return(Some(MoveQueryOf(Unwrap(origin), Unwrap(destination),
                                     Unwrap(promotion))))

\* commands the client reads
MaxCommands == 3

\* move tokens of a position command
MaxMoves == 2

MoveTokens ==
    {<<"e", "2", "e", "4">>, <<"e", "2", "e", "5">>, <<"b", "7", "b", "8", "q">>,
     <<"b", "7", "b", "8">>, <<"z", "9", "e", "4">>, <<"e", "2">>}

TokenLists == UNION {[1 .. n -> MoveTokens] : n \in 0 .. MaxMoves}

\* what stands before `moves`: startpos, fen with its text, or anything else
PositionArgs ==
    {[first |-> "startpos", fen |-> None], [first |-> "other", fen |-> None],
     [first |-> "fen", fen |-> None], [first |-> "fen", fen |-> Some(Promotion)],
     [first |-> "fen", fen |-> Some(Stalemate)]}

InitUci ==
    /\ tables = AccessNew
    /\ TTIdle
    /\ MapIdle
    /\ SearchIdle
    /\ TreeIdle
    /\ game = GameOff
    /\ uci = [pc |-> "loop", current_position |-> DefaultState, current_search |-> None,
              before |-> DefaultState, failed |-> FALSE, out |-> << >>, commands |-> 0]

\* `if let Some(search) = current_search.take() { search.wait_cancel() }`: the
\* join of a search whose thread panicked, as it does at a root without legal
\* moves, panics in turn
WaitCancel(u) ==
    IF ~IsSome(u.current_search) THEN u
    ELSE IF ComputeLegalMoves(Unwrap(u.current_search)) = {}
    THEN [u EXCEPT !.current_search = None, !.pc = "panicked"]
    ELSE [u EXCEPT !.current_search = None]

\* the next line is read: before and failed describe the command under way
NextCommand(u) ==
    [WaitCancel(u) EXCEPT !.before = u.current_position, !.failed = FALSE,
                          !.commands = @ + 1]

\* println!("info string ..") and `continue` in the position command
Fail(u, line) == [u EXCEPT !.failed = TRUE, !.out = Append(@, line)]

\* the match on State::by_performing_moves
Performed(u, result) ==
    IF result.ok THEN [u EXCEPT !.current_position = Unwrap(result.value)]
    ELSE Fail(u, "info string invalid move")

\* "Apply the moves"
ApplyMoves(u, moves) ==
    LET parsed == [i \in DOMAIN moves |-> ParseMoveToken(moves[i])]
        kept == SelectSeq(parsed, LAMBDA p : IsSome(p.query))
        move_details == [i \in DOMAIN kept |-> Unwrap(kept[i].query)]
    IN  IF \E i \in DOMAIN parsed : parsed[i].panic
        THEN [u EXCEPT !.failed = TRUE, !.pc = "panicked"]
        ELSE IF Len(move_details) # Len(moves)
        THEN Fail(u, "info string invalid move format")
        ELSE Performed(u, ByPerformingMoves(u.current_position, move_details))

\* "Parse the position string", then the moves
PositionCommand(u, pos, moves) ==
    IF u.pc = "panicked" THEN u
    ELSE IF pos.first = "fen" /\ ~IsSome(pos.fen)
    THEN Fail(u, "info string invalid fen position")
    ELSE IF pos.first \notin {"startpos", "fen"}
    THEN Fail(u, "info string unknown position command")
    ELSE ApplyMoves([u EXCEPT !.current_position =
                        IF pos.first = "startpos" THEN DefaultState ELSE Unwrap(pos.fen)],
                    moves)

\* the position command
Position(pos, moves) ==
    /\ uci.pc = "loop"
    /\ uci.commands < MaxCommands
    /\ uci' = PositionCommand(NextCommand(uci), pos, moves)
    /\ UNCHANGED <<game, offChess>>

\* the positions the opening book answers: the book is built data, of which
\* its test says that it holds the default position
BookPositions == {DefaultState}

\* the go command without arguments, after its wait_cancel: a book move is
\* answered at once, otherwise a search of the current position is spawned
GoCommand(u) ==
    IF u.pc = "panicked" THEN u
    ELSE IF u.current_position \in BookPositions
    THEN [u EXCEPT !.out = @ \o <<"info string book move", "bestmove">>]
    ELSE [u EXCEPT !.current_search = Some(u.current_position)]

Go ==
    /\ uci.pc = "loop"
    /\ uci.commands < MaxCommands
    /\ uci' = GoCommand(NextCommand(uci))
    /\ UNCHANGED <<game, offChess>>

\* the stop command
Stop ==
    /\ uci.pc = "loop"
    /\ uci.commands < MaxCommands
    /\ uci' = NextCommand(uci)
    /\ UNCHANGED <<game, offChess>>

NextUci ==
    \/ \E pos \in PositionArgs, moves \in TokenLists : Position(pos, moves)
    \/ Go
    \/ Stop

SpecUci == InitUci /\ [][NextUci]_vars

\* C5: when a position command has failed, its last output is an `info
\* string` line and current_position is what it was before the command.
C5_FailedPositionKeepsPosition ==
    uci.failed =>
        /\ uci.pc = "loop"
        /\ uci.out # << >>
        /\ uci.out[Len(uci.out)] \in
              {"info string invalid fen position", "info string unknown position command",
               "info string invalid move format", "info string invalid move"}
        /\ uci.current_position = uci.before

(***************************************************************************)
(* The client loop and the threads of its searches.  Client::exec reads    *)
(* one command after the other; Search::spawn starts analyze (a control    *)
(* thread and, inside it, the search thread), a timer thread and a writer  *)
(* thread; Search::wait_cancel sends Stop and joins the control thread and *)
(* the writer thread.  The session is kept in uci: the searches spawned so *)
(* far, the lines printed with the search that printed them (0 for the     *)
(* loop itself), and the position of the loop.                            *)
(***************************************************************************)
\* go commands of a session
MaxSearches == 2

\* events a search sends on its status channel
MaxEvents == 1

\* the commands that start with `current_search.take()` and wait_cancel; quit
\* and the end of the input leave the loop for the wait_cancel after it
SessionCommands == {"go", "position", "stop", "ucinewgame", "quit"}

SearchIds == 1 .. Len(uci.searches)

\* the threads and channels of a search that Search::spawn has just started:
\* thread is the search thread, sent and open the status channel, control,
\* queue, stops and cancelled the control thread with its channel and token
NewSearch ==
    [thread |-> "running", sent |-> 0, open |-> TRUE,
     control |-> "recv", queue |-> 0, stops |-> {}, cancelled |-> FALSE,
     timer |-> "armed", writer |-> "recv", read |-> 0]

\* send(ControlEvent::Stop) on the control channel of a search: an error is
\* returned, and ignored, once the control thread has dropped the receiver
StopSent(s, sender) ==
    IF s.control \in {"done", "panicked"} THEN s
    ELSE [s EXCEPT !.queue = @ + 1, !.stops = @ \cup {sender}]

\* `let timer_stop = control.clone()`: the search whose channel the timer of
\* search k sends on
TimerTarget(k) == k

\* variant: the join returns without waiting
WriterJoinedAtOnce(s) == TRUE

\* self.write_handle.join() returns
WriterJoined(s) == s.writer = "done"

\* self.search_handle.join() returns
SearchJoined(s) == s.control \in {"done", "panicked"}

InitSession ==
    /\ tables = AccessNew
    /\ TTIdle
    /\ MapIdle
    /\ SearchIdle
    /\ TreeIdle
    /\ game = GameOff
    /\ uci = [pc |-> "loop", cmd |-> "", current_search |-> None, joining |-> 0,
              searches |-> << >>, out |-> << >>, gos |-> 0]

\* `while let Some(Ok(cmd)) = input.next()` and `current_search.take()`
ReadLine(cmd) ==
    /\ uci.pc = "loop"
    /\ cmd = "go" => uci.gos < MaxSearches
    /\ uci' = [uci EXCEPT !.cmd = cmd,
                          !.gos = IF cmd = "go" THEN @ + 1 ELSE @,
                          !.current_search = None,
                          !.joining = IF IsSome(uci.current_search)
                                      THEN Unwrap(uci.current_search) ELSE 0,
                          !.pc = IF IsSome(uci.current_search) THEN "send_stop"
                                 ELSE "rest"]
    /\ UNCHANGED <<game, offChess>>

\* wait_cancel: `_ = self.control.send(searcher::ControlEvent::Stop)`
WaitCancelSends ==
    /\ uci.pc = "send_stop"
    /\ uci' = [uci EXCEPT !.pc = "join_search",
                          !.searches[uci.joining] = StopSent(@, <<"caller", uci.joining>>)]
    /\ UNCHANGED <<game, offChess>>

\* wait_cancel: `self.search_handle.join().unwrap()`
WaitCancelJoinsSearch ==
    /\ uci.pc = "join_search"
    /\ SearchJoined(uci.searches[uci.joining])
    /\ uci' = [uci EXCEPT !.pc = IF uci.searches[uci.joining].control = "panicked"
                                 THEN "panicked" ELSE "join_writer"]
    /\ UNCHANGED <<game, offChess>>

\* wait_cancel: `self.write_handle.join().unwrap()`
WaitCancelJoinsWriter ==
    /\ uci.pc = "join_writer"
    /\ WriterJoined(uci.searches[uci.joining])
    /\ uci' = [uci EXCEPT !.pc = "rest", !.joining = 0]
    /\ UNCHANGED <<game, offChess>>

\* the go command after its wait_cancel, in a position of the opening book
GoAnswersFromBook ==
    /\ uci.pc = "rest"
    /\ uci.cmd = "go"
    /\ uci' = [uci EXCEPT !.pc = "loop",
                          !.out = @ \o <<[search |-> 0, line |-> "info string book move"],
                                         [search |-> 0, line |-> "bestmove"]>>]
    /\ UNCHANGED <<game, offChess>>

\* the go command after its wait_cancel: `current_search = Some(Search::spawn(..))`
GoSpawns ==
    /\ uci.pc = "rest"
    /\ uci.cmd = "go"
    /\ uci' = [uci EXCEPT !.pc = "loop",
                          !.searches = Append(@, NewSearch),
                          !.current_search = Some(Len(uci.searches) + 1)]
    /\ UNCHANGED <<game, offChess>>

\* position, stop and ucinewgame go back to the loop; quit and the end of the
\* input end exec
CommandEnds ==
    /\ uci.pc = "rest"
    /\ uci.cmd # "go"
    /\ uci' = [uci EXCEPT !.pc = IF uci.cmd = "quit" THEN "done" ELSE "loop"]
    /\ UNCHANGED <<game, offChess>>

\* the search thread: `_ = sink.send(event)`
SearchSends(k) ==
    /\ uci.searches[k].thread = "running"
    /\ uci.searches[k].sent < MaxEvents
    /\ uci' = [uci EXCEPT !.searches[k].sent = @ + 1]
    /\ UNCHANGED <<game, offChess>>

\* the search thread: analyze_iterative returns, of itself or interrupted,
\* `tx3.send(ControlEvent::Stop).unwrap()`, and sink is dropped
SearchEnds(k) ==
    /\ uci.searches[k].thread = "running"
    /\ uci' = [uci EXCEPT !.searches[k] =
                  [StopSent(@, <<"search", k>>) EXCEPT !.thread = "done", !.open = FALSE]]
    /\ UNCHANGED <<game, offChess>>

\* the search thread: `assert!(!line.is_empty())` fails; sink and tx3 are
\* dropped by the unwinding and no Stop is sent
SearchPanics(k) ==
    /\ uci.searches[k].thread = "running"
    /\ uci' = [uci EXCEPT !.searches[k].thread = "panicked", !.searches[k].open = FALSE]
    /\ UNCHANGED <<game, offChess>>

\* the control thread: `controller.recv()` returns Stop
ControllerRecv(k) ==
    /\ uci.searches[k].control = "recv"
    /\ uci.searches[k].queue > 0
    /\ uci' = [uci EXCEPT !.searches[k].control = "cancel", !.searches[k].queue = @ - 1]
    /\ UNCHANGED <<game, offChess>>

\* the control thread: `signal_token.cancel()`
ControllerCancels(k) ==
    /\ uci.searches[k].control = "cancel"
    /\ uci' = [uci EXCEPT !.searches[k].control = "join", !.searches[k].cancelled = TRUE]
    /\ UNCHANGED <<game, offChess>>

\* the control thread: `search_handle.join().unwrap()`
ControllerJoins(k) ==
    /\ uci.searches[k].control = "join"
    /\ uci.searches[k].thread # "running"
    /\ uci' = [uci EXCEPT !.searches[k].control = uci.searches[k].thread]
    /\ UNCHANGED <<game, offChess>>

\* the timer thread: the search time has elapsed,
\* `_ = timer_stop.send(searcher::ControlEvent::Stop)`
TimerSends(k) ==
    /\ uci.searches[k].timer = "armed"
    /\ TimerTarget(k) \in SearchIds
    /\ uci' = [uci EXCEPT !.searches =
                  [[@ EXCEPT ![TimerTarget(k)] = StopSent(@, <<"timer", k>>)]
                      EXCEPT ![k].timer =
                          IF uci.searches[TimerTarget(k)].control \in {"done", "panicked"}
                          THEN "failed" ELSE "sent"]]
    /\ UNCHANGED <<game, offChess>>

\* the writer thread: `receiver.recv()` returns an event and its lines are printed
WriterPrints(k) ==
    /\ uci.searches[k].writer = "recv"
    /\ uci.searches[k].read < uci.searches[k].sent
    /\ uci' = [uci EXCEPT !.searches[k].read = @ + 1,
                          !.out = Append(@, [search |-> k, line |-> "info"])]
    /\ UNCHANGED <<game, offChess>>

\* the writer thread: recv() fails on the closed and drained channel, and
\* `if let Some(m) = best_line.first()` prints bestmove
WriterFinishes(k) ==
    /\ uci.searches[k].writer = "recv"
    /\ uci.searches[k].read = uci.searches[k].sent
    /\ ~uci.searches[k].open
    /\ uci' = [uci EXCEPT !.searches[k].writer = "done",
                          !.out = IF uci.searches[k].read > 0
                                  THEN Append(@, [search |-> k, line |-> "bestmove"])
                                  ELSE @]
    /\ UNCHANGED <<game, offChess>>

NextSession ==
    \/ \E cmd \in SessionCommands : ReadLine(cmd)
    \/ WaitCancelSends
    \/ WaitCancelJoinsSearch
    \/ WaitCancelJoinsWriter
    \/ GoAnswersFromBook
    \/ GoSpawns
    \/ CommandEnds
    \/ \E k \in SearchIds : SearchSends(k)
    \/ \E k \in SearchIds : SearchEnds(k)
    \/ \E k \in SearchIds : SearchPanics(k)
    \/ \E k \in SearchIds : ControllerRecv(k)
    \/ \E k \in SearchIds : ControllerCancels(k)
    \/ \E k \in SearchIds : ControllerJoins(k)
    \/ \E k \in SearchIds : TimerSends(k)
    \/ \E k \in SearchIds : WriterPrints(k)
    \/ \E k \in SearchIds : WriterFinishes(k)

SpecSession == InitSession /\ [][NextSession]_vars

\* a search is running while its search thread or its writer thread is
Running(k) == uci.searches[k].thread = "running" \/ uci.searches[k].writer # "done"

\* the positions of the output where search k printed
LinesOf(k) == {i \in DOMAIN uci.out : uci.out[i].search = k}

\* C29: the client never has two searches running at once.  A search whose
\* search thread or writer thread has not finished is the current search or
\* the one wait_cancel is waiting for, and it is the last one spawned; a
\* command goes on after its wait_cancel only when both threads of the
\* search have finished; every line of a search, its bestmove last, is
\* printed before any line of a later search; and every Stop on the control
\* channel of a search was sent by that search's own timer, by its own search
\* thread or by the wait_cancel on it.
C29_OneSearchAtATime ==
    /\ Cardinality({k \in SearchIds : Running(k)}) <= 1
    /\ \A k \in SearchIds :
          Running(k) =>
              /\ k = Len(uci.searches)
              /\ uci.current_search = Some(k) \/ uci.joining = k
    /\ uci.pc \in {"rest", "done"} => \A k \in SearchIds : ~Running(k)
    /\ uci.pc = "loop" /\ uci.current_search = None => \A k \in SearchIds : ~Running(k)
    /\ \A i \in DOMAIN uci.out, j \in DOMAIN uci.out :
          (i < j /\ uci.out[i].search > 0 /\ uci.out[j].search > 0) =>
              /\ uci.out[i].search <= uci.out[j].search
              /\ uci.out[i].line = "bestmove" => uci.out[i].search < uci.out[j].search
    /\ \A k \in SearchIds :
          /\ \A sender \in uci.searches[k].stops : sender[2] = k
          /\ uci.searches[k].cancelled => uci.searches[k].stops # {}

\* the second search is running, not cancelled and has printed, after every
\* line of the first one and its bestmove; the timer of the first search
\* has fired since, and its Stop went nowhere
C29_Witness ==
    /\ Len(uci.searches) = 2
    /\ uci.searches[1].timer = "failed"
    /\ uci.searches[2].thread = "running"
    /\ uci.searches[2].queue = 0 /\ ~uci.searches[2].cancelled
    /\ uci.searches[2].timer = "armed"
    /\ LinesOf(2) # {}
    /\ \E i \in LinesOf(1) : uci.out[i].line = "bestmove"

(***************************************************************************)
(* analyze_recursive.  The search runs on a game tree given from outside:  *)
(* a position is named by its hash, a move by the position it leads to,    *)
(* and every position comes with its legal moves in the order the sorted   *)
(* buffer is read, with whether its side to move is in check and with what *)
(* Evaluator::evaluate returns for it.  No move of the tree is a capture,  *)
(* so that quiescence_search returns the evaluation of its position.       *)
(***************************************************************************)
\* iterations of analyze_iterative followed on the tree
TreeDepth == 3

\* `if current_extension < 16`
MaxExtension == 16

\* the legal moves of position p, by the shape chosen for it
TreeMoves(shape, p) ==
    CASE shape = 0 -> << >>
      [] shape = 1 -> <<(p + 1) % HashSpace>>
      [] OTHER -> <<(p + 1) % HashSpace, (p + 2) % HashSpace>>

\* the evaluations of the positions: material a pawn up or down, or every
\* position of odd hash lost for its side to move
TreeEvaluations ==
    {[h \in Hashes |-> ((h % 3) - 1) * ONE_PAWN],
     [h \in Hashes |-> IF h % 2 = 1 THEN NEG_INF ELSE EVEN]}

\* the positions whose side to move is in check: none, all, the root only,
\* or the positions of odd hash
TreeChecks == {{}, Hashes, {RootHash}, {h \in Hashes : h % 2 = 1}}

GameTrees ==
    [shape : [Hashes -> 0 .. 2], check : TreeChecks, evaluate : TreeEvaluations]

\* hashes a previous artifact can have left in the StateHistory
PreviousHistories == {{}, {1}, {2, 3}}

\* state_history.increment(hash)
Increment(state_history, hash) == state_history \cup {hash}

\* variant: the root is taken for a repetition as well
IsRepetitionAtAnyDepth(current_depth, state_hash, state_history) ==
    state_hash \in state_history

\* `current_depth > 0 && state_history.lookup(&state_hash).is_some()`
IsRepetition(current_depth, state_hash, state_history) ==
    current_depth > 0 /\ state_hash \in state_history

\* the probe of the table at the head of a node: the value to return, or the
\* window the entry leaves
TableProbe(tt, state_hash, remaining_depth, alpha0, beta0) ==
    LET found == AccessFind(tt, state_hash)
    IN  IF IsSome(found) /\ Unwrap(found).max_depth - Unwrap(found).depth >= remaining_depth
        THEN LET e == Unwrap(found)
                 alpha == IF e.kind = "LowerBound" THEN Max(alpha0, e.evaluation) ELSE alpha0
                 beta == IF e.kind = "UpperBound" THEN Min(beta0, e.evaluation) ELSE beta0
             IN  [ret |-> IF e.kind = "Exact" \/ alpha >= beta
                          THEN Some(e.evaluation) ELSE None,
                  alpha |-> alpha, beta |-> beta]
        ELSE [ret |-> None, alpha |-> alpha0, beta |-> beta0]

TranspositionEntry(kind, performed_move, depth, max_depth, evaluation) ==
    [kind |-> kind, performed_move |-> performed_move, depth |-> depth,
     max_depth |-> max_depth, evaluation |-> evaluation]

\* calculate_extension_depth(game_state, &mv)
CalculateExtensionDepth(tree, state) == IF state \in tree.check THEN 1 ELSE 0

\* quiescence_search on a position all of whose moves are quiet
QuiescenceSearch(tree, state) == tree.evaluate[state]

\* what a node leaves behind: its arguments, the number of the node that
\* called it, how it returned and with which value, the evaluations it got
\* for its moves, the entry it stored and the kind of that entry
Visit(c, number, how, value, evaluations, entry) ==
    [hash |-> c.state, current_depth |-> c.current_depth, max_depth |-> c.max_depth,
     current_extension |-> c.current_extension, alpha |-> c.alpha, beta |-> c.beta,
     parent |-> c.parent, number |-> number, how |-> how, value |-> value,
     evaluations |-> evaluations, entry |-> entry,
     inserted |-> IF IsSome(entry) THEN Some(Unwrap(entry).kind) ELSE None]

\* analyze_recursive returns: the Result, the table, the node counter, and
\* the visits of the node and of the nodes below it
NodeReturns(result, tt, nodes, visit, below) ==
    [result |-> result, tt |-> tt, nodes |-> nodes, visits |-> <<visit>> \o below]

RECURSIVE AnalyzeRecursive(_, _)

RECURSIVE SearchMoves(_, _, _, _)

\* variant: a raised alpha leaves the kind of the node as it was
KindKept(evaluation_type) == evaluation_type

\* `evaluation_type = EvaluationKind::Exact` when a move has raised alpha
KindRaised(evaluation_type) == "Exact"

\* the body of the loop after the recursive call has returned
AfterMove(env, c, loop, moves, child) ==
    LET mv == Head(moves)
        evaluation == -Unwrap(child.result.value)
        below == loop.visits \o child.visits
    IN  IF ~child.result.ok
        THEN [loop EXCEPT !.exit = "interrupt", !.tt = child.tt, !.nodes = child.nodes,
                          !.visits = below]
        ELSE IF evaluation >= c.beta
        THEN [loop EXCEPT !.exit = "cutoff", !.nodes = child.nodes, !.visits = below,
                          !.tt = AccessInsert(child.tt, c.state,
                                     TranspositionEntry("LowerBound", mv, c.current_depth,
                                                        c.max_depth, c.beta)),
                          !.entry = TranspositionEntry("LowerBound", mv, c.current_depth,
                                                       c.max_depth, c.beta),
                          !.evaluations = Append(@, <<mv, evaluation>>)]
        ELSE SearchMoves(env, c,
                 [loop EXCEPT !.tt = child.tt, !.nodes = child.nodes, !.visits = below,
                              !.alpha = IF evaluation > @ THEN evaluation ELSE @,
                              !.best_move = IF evaluation > loop.alpha THEN Some(mv) ELSE @,
                              !.evaluation_type =
                                  IF evaluation > loop.alpha THEN KindRaised(@) ELSE @,
                              !.evaluations = Append(@, <<mv, evaluation>>)],
                 Tail(moves))

\* variant: the extension is not added to max_depth
MaxDepthKept(max_depth, extension) == max_depth

\* `max_depth + extension`, the max_depth of the recursive call
MaxDepthExtended(max_depth, extension) == max_depth + extension

\* `for pseudo_legal_move in move_buffer.iter().rev()`
SearchMoves(env, c, loop, moves) ==
    IF moves = << >> THEN loop
    ELSE LET extension == IF c.current_extension < MaxExtension
                          THEN CalculateExtensionDepth(env.tree, c.state) ELSE 0
         IN  AfterMove(env, c, loop, moves,
                 AnalyzeRecursive(env,
                     [state |-> Head(moves),
                      max_depth |-> MaxDepthExtended(c.max_depth, extension),
                      current_depth |-> c.current_depth + 1 + extension,
                      current_extension |-> c.current_extension + extension,
                      alpha |-> -c.beta, beta |-> -loop.alpha,
                      prioritized_move |-> None, tt |-> loop.tt, nodes |-> loop.nodes,
                      parent |-> c.number, number |-> 0]))

\* the end of a node whose moves have been searched
AfterMoves(env, c, number, loop) ==
    CASE loop.exit = "interrupt" ->
             NodeReturns(Err("SearchInterrupt"), loop.tt, loop.nodes,
                         Visit(c, number, "interrupt", 0, loop.evaluations, None),
                         loop.visits)
      [] loop.exit = "cutoff" ->
             NodeReturns(Ok(c.beta), loop.tt, loop.nodes,
                         Visit(c, number, "cutoff", c.beta, loop.evaluations,
                               Some(loop.entry)),
                         loop.visits)
      [] loop.nodes = number ->
             NodeReturns(Ok(env.tree.evaluate[c.state]), loop.tt, loop.nodes,
                         Visit(c, number, "terminal", env.tree.evaluate[c.state],
                               loop.evaluations, None),
                         loop.visits)
      [] OTHER ->
             NodeReturns(Ok(loop.alpha),
                         IF IsSome(loop.best_move)
                         THEN AccessInsert(loop.tt, c.state,
                                  TranspositionEntry(loop.evaluation_type,
                                                     Unwrap(loop.best_move),
                                                     c.current_depth, c.max_depth,
                                                     loop.alpha))
                         ELSE loop.tt,
                         loop.nodes,
                         Visit(c, number, "searched", loop.alpha, loop.evaluations,
                               IF IsSome(loop.best_move)
                               THEN Some(TranspositionEntry(loop.evaluation_type,
                                                            Unwrap(loop.best_move),
                                                            c.current_depth, c.max_depth,
                                                            loop.alpha))
                               ELSE None),
                         loop.visits)

\* the arguments of the node with the window the probe has left
Probed(c, number, probe) ==
    [c EXCEPT !.alpha = probe.alpha, !.beta = probe.beta, !.number = number]

\* the node once the table has been probed
AfterProbe(env, c, number, probe) ==
    IF IsSome(probe.ret)
    THEN NodeReturns(Ok(Unwrap(probe.ret)), c.tt, number,
                     Visit(c, number, "table", Unwrap(probe.ret), << >>, None), << >>)
    ELSE IF c.current_depth >= c.max_depth
    THEN NodeReturns(Ok(QuiescenceSearch(env.tree, c.state)), c.tt, number,
                     Visit(c, number, "quiescence", QuiescenceSearch(env.tree, c.state),
                           << >>, None),
                     << >>)
    ELSE AfterMoves(env, Probed(c, number, probe), number,
             SearchMoves(env, Probed(c, number, probe),
                 [exit |-> "end", alpha |-> probe.alpha, best_move |-> None,
                  evaluation_type |-> "UpperBound", tt |-> c.tt, nodes |-> number,
                  visits |-> << >>, evaluations |-> << >>, entry |-> None],
                 (IF IsSome(c.prioritized_move) THEN <<Unwrap(c.prioritized_move)>>
                  ELSE << >>)
                     \o TreeMoves(env.tree.shape[c.state], c.state)))

\* Searcher::analyze_recursive
AnalyzeRecursive(env, c) ==
    IF ShouldInterrupt(c.nodes + 1, env.cancelled)
    THEN NodeReturns(Err("SearchInterrupt"), c.tt, c.nodes + 1,
                     Visit(c, c.nodes + 1, "interrupt", 0, << >>, None), << >>)
    ELSE IF IsRepetition(c.current_depth, c.state, env.state_history)
    THEN NodeReturns(Ok(EVEN), c.tt, c.nodes + 1,
                     Visit(c, c.nodes + 1, "repetition", EVEN, << >>, None), << >>)
    ELSE AfterProbe(env, c, c.nodes + 1,
                    TableProbe(c.tt, c.state, c.max_depth - c.current_depth,
                               c.alpha, c.beta))

\* what analyze_recursive reads without changing it
TreeEnv == [tree |-> analysis.tree, state_history |-> analysis.state_history,
            cancelled |-> analysis.cancelled]

\* the call of analyze_recursive for the root, by the one task of an
\* iteration below ParallelDepth
RootCall ==
    [state |-> RootHash, max_depth |-> analysis.depth + 1, current_depth |-> 0,
     current_extension |-> 0, alpha |-> -MateInPly(0), beta |-> MateInPly(0),
     prioritized_move |-> analysis.best_mv, tt |-> tables, nodes |-> 0,
     parent |-> 0, number |-> 0]

\* analyze_iterative up to its loop: a fresh table, and the hash of the root
\* recorded in the history a previous artifact has left
InitTree ==
    /\ tables = AccessNew
    /\ TTIdle
    /\ MapIdle
    /\ SearchIdle
    /\ ChessIdle
    /\ analysis \in [pc : {"loop"}, tree : GameTrees,
                     state_history : {Increment(h, RootHash) : h \in PreviousHistories},
                     cancelled : BOOLEAN, depth : {0}, best_eval : {NEG_INF},
                     best_mv : {None}, visits : {<< >>}]


\* the iteration has returned Ok: the line is read from the table
Completed(a, r) ==
    IF LineIsEmpty(r.tt) THEN [a EXCEPT !.pc = "panicked", !.visits = r.visits]
    ELSE [a EXCEPT !.pc = IF MateFound(Unwrap(r.result.value)) THEN "done" ELSE "loop",
                   !.depth = @ + 1,
                   !.best_eval = Unwrap(r.result.value),
                   !.best_mv = Some(Unwrap(AccessFind(r.tt, RootHash)).performed_move),
                   !.visits = r.visits]

\* one iteration of `for depth in 0..max_depth` with a single task
IterateWith(r) ==
    /\ analysis.pc = "loop"
    /\ analysis.depth < TreeDepth
    /\ tables' = r.tt
    /\ analysis' = IF r.result.ok THEN Completed(analysis, r)
                   ELSE [analysis EXCEPT !.pc = "done", !.visits = r.visits]
    /\ UNCHANGED offTree

Iterate == IterateWith(AnalyzeRecursive(TreeEnv, RootCall))

NextTree == Iterate

SpecTree == InitTree /\ [][NextTree]_vars

(***************************************************************************)
(* Properties of the recursive search                                      *)
(***************************************************************************)
Visits == analysis.visits

\* the visits of nodes below the root whose hash the history holds and at
\* which the search went on past the token
RepeatedVisits ==
    {i \in DOMAIN Visits :
        /\ Visits[i].current_depth > 0
        /\ Visits[i].hash \in analysis.state_history
        /\ Visits[i].how # "interrupt"}

\* C11: a node below the root whose hash is in the StateHistory returns EVEN
\* at the repetition test, before the table is probed, a move is searched or
\* an entry is stored, and its parent gets the evaluation 0 for the move that
\* leads to it; the root, whose hash the history holds as well, is never
\* returned as a repetition.
C11_RepetitionIsEvenBelowRoot ==
    /\ \A i \in RepeatedVisits :
          /\ Visits[i].how = "repetition"
          /\ Visits[i].value = EVEN
          /\ Visits[i].evaluations = << >>
          /\ Visits[i].inserted = None
    /\ \A i \in DOMAIN Visits :
          /\ Visits[i].current_depth = 0 => Visits[i].how # "repetition"
          /\ \A k \in DOMAIN Visits[i].evaluations :
                Visits[i].evaluations[k][1] \in analysis.state_history
                    => Visits[i].evaluations[k][2] = 0

\* the root, which the history holds, has searched its moves, and one of
\* them led to a position of the history
C11_Witness ==
    /\ Visits # << >>
    /\ Visits[1].current_depth = 0
    /\ Visits[1].hash \in analysis.state_history
    /\ Visits[1].how = "searched"
    /\ \E i \in RepeatedVisits : Visits[i].how = "repetition"
    /\ \E k \in DOMAIN Visits[1].evaluations :
          /\ Visits[1].evaluations[k][1] \in analysis.state_history
          /\ Visits[1].evaluations[k][2] = 0

\* the visit of the node with a number
VisitOf(number) == CHOOSE i \in DOMAIN Visits : Visits[i].number = number

\* the visits of the nodes below the root
ChildVisits == {i \in DOMAIN Visits : Visits[i].parent # 0}

\* the visit of the node that called the node of a visit
Parent(i) == Visits[VisitOf(Visits[i].parent)]

\* the recursive calls between the root and the node of a visit
RECURSIVE Ply(_)
Ply(i) == IF Visits[i].parent = 0 THEN 0 ELSE 1 + Ply(VisitOf(Visits[i].parent))

\* `max_depth - current_depth`
RemainingDepth(v) == v.max_depth - v.current_depth

\* the entries the table holds
StoredEntries ==
    {Unwrap(tables[s].buckets[b][i]).entry :
        <<s, b, i>> \in {x \in Shards \X Buckets \X Slots :
                            IsSome(tables[x[1]].buckets[x[2]][x[3]])}}

ExtensionOf(i) == Visits[i].current_extension - Parent(i).current_extension

\* C25: a move of analyze_recursive gets the extension 1 when the side to
\* move of the state it leads to is in check and the extension accumulated
\* on the path is below 16, and the extension 0 otherwise.
C25_ExtensionForCheckingMove ==
    \A i \in ChildVisits :
        ExtensionOf(i) =
            IF Visits[i].hash \in analysis.tree.check
                   /\ Parent(i).current_extension < MaxExtension
            THEN 1 ELSE 0

\* the moves of a visit that raised alpha when they were searched
Raises(v) ==
    {k \in DOMAIN v.evaluations :
        /\ v.evaluations[k][2] > v.alpha
        /\ \A j \in 1 .. (k - 1) : v.evaluations[j][2] < v.evaluations[k][2]}

\* the last of them
LastRaise(v) == CHOOSE k \in Raises(v) : \A j \in Raises(v) : j <= k

\* C26: an entry that analyze_recursive stores has kind LowerBound, at a
\* beta cutoff, with evaluation beta and the move that cut off, or kind
\* Exact, at the end of a node one of whose moves raised alpha, with
\* evaluation alpha and the move that raised alpha last; a node none of
\* whose moves raised alpha stores nothing, and the table never holds an
\* entry of kind UpperBound.
C26_StoredKinds ==
    /\ \A e \in StoredEntries : e.kind \in {"LowerBound", "Exact"}
    /\ \A i \in DOMAIN Visits :
          LET v == Visits[i]
              n == Len(v.evaluations)
          IN  CASE v.how = "cutoff" ->
                       /\ v.evaluations[n][2] >= v.beta
                       /\ v.entry = Some(TranspositionEntry("LowerBound", v.evaluations[n][1],
                                                            v.current_depth, v.max_depth,
                                                            v.beta))
                [] v.how = "searched" /\ Raises(v) # {} ->
                       /\ v.value = v.evaluations[LastRaise(v)][2]
                       /\ v.entry = Some(TranspositionEntry("Exact",
                                                            v.evaluations[LastRaise(v)][1],
                                                            v.current_depth, v.max_depth,
                                                            v.value))
                [] OTHER -> v.entry = None

\* the visit of a node that stored an Exact entry for the second of its moves
RaisedTwice(v) ==
    /\ v.how = "searched"
    /\ Raises(v) # {}
    /\ LastRaise(v) = 2
    /\ v.inserted = Some("Exact")

\* in one iteration a node stored an Exact entry for the second of its
\* moves, a node stored a LowerBound entry at a cutoff, and a node none of
\* whose moves raised alpha stored nothing
C26_Witness ==
    /\ \E i \in DOMAIN Visits : RaisedTwice(Visits[i])
    /\ \E i \in DOMAIN Visits : Visits[i].how = "cutoff"
    /\ \E i \in DOMAIN Visits : Visits[i].how = "searched" /\ Visits[i].entry = None

(***************************************************************************)
(* The evaluator on a state.  As in Searcher::quiescence_search, the legal *)
(* moves of the state are computed into the buffer and the state is then   *)
(* evaluated.                                                              *)
(***************************************************************************)
\* the states that are evaluated: the positions and the states a legal move
\* of them leads to
EvaluatedStates ==
    StartPositions
        \cup UNION {{r.state : r \in ComputeLegalMoves(s)} : s \in StartPositions}

InitEval ==
    /\ tables = AccessNew
    /\ TTIdle
    /\ MapIdle
    /\ SearchIdle
    /\ TreeIdle
    /\ uci = UciOff
    /\ \E s \in EvaluatedStates :
          game = [state |-> s, legal_moves |-> {}, generated |-> FALSE,
                  evaluation |-> None]

\* Evaluator::evaluate on the state of the game
EvaluateState(perspective) ==
    /\ game.generated
    /\ game.evaluation = None
    /\ game' = [game EXCEPT !.evaluation =
                    Some([perspective |-> perspective,
                          value |-> Evaluate(game.state, perspective)])]
    /\ UNCHANGED <<uci, offChess>>

NextEval ==
    \/ ComputeLegalMovesInto
    \/ \E perspective \in Colors : EvaluateState(perspective)

SpecEval == InitEval /\ [][NextEval]_vars

(***************************************************************************)
(* Properties of the evaluator                                             *)
(***************************************************************************)
\* the state of the game has been evaluated and its legal moves computed,
\* and there is none
EvaluatedWithoutMoves ==
    /\ game.generated
    /\ game.legal_moves = {}
    /\ IsSome(game.evaluation)

\* C13: for a state in which the side to move has no legal move,
\* Evaluator::evaluate returns NEG_INF when the side to move is in check and
\* is the perspective, POS_INF when it is in check and is not the
\* perspective, and EVEN when it is not in check.
C13_TerminalValueWithoutMoves ==
    EvaluatedWithoutMoves =>
        Unwrap(game.evaluation).value =
            Terminal(game.state, Unwrap(game.evaluation).perspective,
                     IsCheck(game.state.board, game.state.turn_to_move))

\* the terminal value is returned when no square next to the king passes the
\* quick test
C13_TerminalValueWithoutKingSquare ==
    EvaluatedWithoutMoves /\ ~KingHasMove(game.state) =>
        Unwrap(game.evaluation).value =
            Terminal(game.state, Unwrap(game.evaluation).perspective,
                     IsCheck(game.state.board, game.state.turn_to_move))

(***************************************************************************)
(* State::by_performing_moves on a state and a slice of queries            *)
(***************************************************************************)
\* MoveQuery::new
NewQuery ==
    [piece |-> None, origin_rank |-> None, origin_file |-> None, dest_rank |-> None,
     dest_file |-> None, promotion |-> None, castle |-> None, is_capture |-> None]

\* MoveQuery::by_castling
ByCastlingQuery(side) == [NewQuery EXCEPT !.castle = Some(side)]

\* MoveQuery::new followed by set_piece
ByPieceQuery(piece) == [NewQuery EXCEPT !.piece = Some(piece)]

\* the queries of a call: moves of a king, a promotion with and without its
\* piece, a move no piece can make, castling, and any move of a king
MoveQueries ==
    {MoveQueryOf(At("h", "1"), At("g", "1"), None),
     MoveQueryOf(At("h", "8"), At("g", "8"), None),
     MoveQueryOf(At("b", "7"), At("b", "8"), None),
     MoveQueryOf(At("b", "7"), At("b", "8"), Some("Queen")),
     MoveQueryOf(At("e", "2"), At("e", "5"), None),
     ByCastlingQuery("King"),
     ByPieceQuery("King")}

\* the longest slice of queries
MaxQueries == 2

QueryLists == UNION {[1 .. n -> MoveQueries] : n \in 0 .. MaxQueries}

InitMoves ==
    /\ tables = AccessNew
    /\ TTIdle
    /\ MapIdle
    /\ SearchIdle
    /\ TreeIdle
    /\ uci = UciOff
    /\ \E s \in StartPositions, queries \in QueryLists :
          game = [state |-> s, queries |-> queries, result |-> None]

\* the caller of by_performing_moves has its result
PerformMoves ==
    /\ game.result = None
    /\ game' = [game EXCEPT !.result =
                    Some(ByPerformingMoves(game.state, game.queries))]
    /\ UNCHANGED <<uci, offChess>>

NextMoves == PerformMoves

SpecMoves == InitMoves /\ [][NextMoves]_vars

\* by_performing_moves on the first k queries of the call
PerformedPrefix(k) == ByPerformingMoves(game.state, SubSeq(game.queries, 1, k))

\* the legal moves of a state that a query selects
Selected(state, query) ==
    {r \in ComputeLegalMoves(state) : MoveQueryTest(query, r.move)}

\* C14: by_performing_moves applies the queries in order to the legal moves
\* of the state reached so far: without a query the result is Ok of the
\* input state; a query that selects exactly one legal move goes on with
\* by_performing_move of it; the first query that selects none ends the call
\* with Err(UnknownMove), the first that selects two or more with
\* Err(AmbiguousMove); an error carries no state, and the input state is as
\* it was.
C14_QueriesAppliedInOrder ==
    IsSome(game.result) =>
        /\ PerformedPrefix(0) = Ok(game.state)
        /\ Unwrap(game.result) = PerformedPrefix(Len(game.queries))
        /\ ~Unwrap(game.result).ok =>
              /\ Unwrap(game.result).value = None
              /\ Unwrap(game.result).error \in {"UnknownMove", "AmbiguousMove"}
        /\ game.state \in StartPositions
        /\ \A k \in 1 .. Len(game.queries) :
              LET before == PerformedPrefix(k - 1)
                  after == PerformedPrefix(k)
              IN  IF ~before.ok THEN after = before
                  ELSE LET selected == Selected(Unwrap(before.value), game.queries[k])
                       IN  CASE Cardinality(selected) = 0 -> after = Err("UnknownMove")
                             [] Cardinality(selected) = 1 ->
                                    \A r \in selected :
                                        /\ after = ByPerformingMove(Unwrap(before.value),
                                                                    r.move)
                                        /\ after = Ok(r.state)
                             [] OTHER -> after = Err("AmbiguousMove")

\* a call whose first query was applied and whose second query selects
\* several moves of the state it led to
C14_Witness ==
    /\ IsSome(game.result)
    /\ Len(game.queries) = 2
    /\ PerformedPrefix(1).ok
    /\ Unwrap(PerformedPrefix(1).value) # game.state
    /\ Unwrap(game.result) = Err("AmbiguousMove")

(***************************************************************************)
(* State::by_performing_move, step after step, on any move of a piece of   *)
(* the side to move: the pseudo-legal moves of the state, as the move      *)
(* generator applies them, and captures en passant by its pawns.           *)
(***************************************************************************)
\* steps of a sequence
MaxSteps == 2

\* Move::by_en_passant for a pawn of the side to move and a square it attacks
EnPassantMoves(state) ==
    UNION {{ByEnPassant(state.turn_to_move, "Pawn", origin, dest) :
                dest \in PAWN_ATTACKS[state.turn_to_move][origin]} :
            origin \in state.board[state.turn_to_move]["Pawn"]}

\* the moves a caller hands to by_performing_move
MovesOf(state) == ComputePsuedoLegalMoves(state) \cup EnPassantMoves(state)

\* the castling rights that are set
RightsOf(state) ==
    {<<c, side>> \in Colors \X {"kingside", "queenside"} : state.castle_rights[c][side]}

InitPerform ==
    /\ tables = AccessNew
    /\ TTIdle
    /\ MapIdle
    /\ SearchIdle
    /\ TreeIdle
    /\ uci = UciOff
    /\ \E s \in StartPositions :
          \E mv \in MovesOf(s) :
              game = [state |-> s, move |-> mv, result |-> None, steps |-> 0,
                      cleared |-> {}]

\* State::by_performing_move(&state, &mv)
Perform ==
    /\ game.result = None
    /\ game' = [game EXCEPT !.result = Some(ByPerformingMove(game.state, game.move)),
                            !.steps = @ + 1]
    /\ UNCHANGED <<uci, offChess>>

\* the caller goes on from the state it was given, with a move of that state
GoOn(next, mv) ==
    /\ game.steps < MaxSteps
    /\ game' = [state |-> next, move |-> mv, result |-> None, steps |-> game.steps,
                cleared |-> game.cleared \cup (RightsOf(game.state) \ RightsOf(next))]
    /\ UNCHANGED <<uci, offChess>>

\* the states and moves a caller can go on with
Following ==
    IF IsSome(game.result) /\ Unwrap(game.result).ok
    THEN {Unwrap(Unwrap(game.result).value)}
    ELSE {}

NextPerform ==
    \/ Perform
    \/ \E next \in Following : \E mv \in MovesOf(next) : GoOn(next, mv)

SpecPerform == InitPerform /\ [][NextPerform]_vars

\* by_performing_move has returned for an en passant move
EnPassantPerformed == IsSome(game.result) /\ game.move.en_passant

\* C15: by_performing_move of an en passant move that the generator yields
\* for the state takes the pawn from its origin to the en passant target,
\* removes the pawn of the other side that stands one rank behind the target,
\* on the mover's side of it, leaves every other piece where it was, and
\* returns a state whose en_passant_target is None; for a state whose
\* en_passant_target is None it returns Err(IllegalEnPassant).
C15_EnPassantApplied ==
    EnPassantPerformed =>
        LET state == game.state
            mv == game.move
            result == Unwrap(game.result)
            mover == state.turn_to_move
            other == OpposingColor(mover)
        IN  IF state.en_passant_target = None
            THEN result = Err("IllegalEnPassant")
            ELSE mv \in ComputePsuedoLegalMoves(state) =>
                 LET target == Unwrap(state.en_passant_target)
                     behind == SquareFrom(RankOf(target) + (IF mover = "White" THEN -1 ELSE 1),
                                          FileOf(target))
                     next == Unwrap(result.value)
                 IN  /\ result.ok
                     /\ mv.dest = target
                     /\ behind \in state.board[other]["Pawn"]
                     /\ next.en_passant_target = None
                     /\ \A c \in Colors, p \in Pieces :
                           next.board[c][p] =
                               IF c = mover /\ p = "Pawn"
                               THEN (state.board[c][p] \ {mv.origin}) \cup {target}
                               ELSE IF c = other /\ p = "Pawn"
                               THEN state.board[c][p] \ {behind}
                               ELSE state.board[c][p]

\* a capture en passant the generator yields for the state a double step of
\* a pawn led to has been applied
C15_Witness ==
    /\ EnPassantPerformed
    /\ Unwrap(game.result).ok
    /\ game.move \in ComputePsuedoLegalMoves(game.state)
    /\ game.steps = 2

\* the corner a rook castles from: H1, A1, H8, A8
CornerOf(color, side) ==
    SquareFrom(IF color = "White" THEN 0 ELSE 7, IF side = "kingside" THEN 7 ELSE 0)

\* by_performing_move has returned a state
StepPerformed == IsSome(game.result) /\ Unwrap(game.result).ok

\* C16: along a sequence of by_performing_move steps the castling rights only
\* shrink: a right (color, side) is set after a step only if it was set
\* before the step, the piece moved was not the king of that color, and a
\* rook of that color stands on the corner of that side in the resulting
\* board; a right cleared by an earlier step of the sequence is not set.
C16_CastleRightsOnlyShrink ==
    /\ game.cleared \cap RightsOf(game.state) = {}
    /\ StepPerformed =>
          LET next == Unwrap(Unwrap(game.result).value)
          IN  /\ game.cleared \cap RightsOf(next) = {}
              /\ \A right \in RightsOf(next) :
                    /\ right \in RightsOf(game.state)
                    /\ ~(game.move.piece = "King" /\ game.state.turn_to_move = right[1])
                    /\ CornerOf(right[1], right[2]) \in next.board[right[1]]["Rook"]

\* the second step of a sequence clears a right, the first step had cleared
\* another, and a right is still set
C16_Witness ==
    /\ StepPerformed
    /\ game.steps = 2
    /\ game.cleared # {}
    /\ RightsOf(game.state) \ RightsOf(Unwrap(Unwrap(game.result).value)) # {}
    /\ RightsOf(Unwrap(Unwrap(game.result).value)) # {}

\* the captures en passant among the pseudo-legal moves of a state
EnPassantGenerated(state) == {mv \in ComputePsuedoLegalMoves(state) : mv.en_passant}

\* C27: by_performing_move returns a state whose side to move is the other
\* side and whose en_passant_target is the square the pawn passed over, one
\* rank behind the destination on the mover's side and half way from the
\* origin, when the move is a double pawn push, and None when it is not; the
\* generator yields a capture en passant for the returned state only when
\* the move was a double pawn push.
C27_TargetOnlyAfterDoublePush ==
    StepPerformed =>
        LET mv == game.move
            mover == game.state.turn_to_move
            next == Unwrap(Unwrap(game.result).value)
            behind == SquareFrom(RankOf(mv.dest) + (IF mover = "White" THEN -1 ELSE 1),
                                 FileOf(mv.dest))
        IN  /\ next.turn_to_move # mover
            /\ next.turn_to_move \in Colors
            /\ IF mv.double_pawn
               THEN /\ next.en_passant_target = Some(behind)
                    /\ 2 * behind = mv.origin + mv.dest
               ELSE /\ next.en_passant_target = None
                    /\ EnPassantGenerated(next) = {}

\* a double pawn push was applied and the generator yields a capture en
\* passant for the state it led to
C27_Witness ==
    /\ StepPerformed
    /\ game.move.double_pawn
    /\ EnPassantGenerated(Unwrap(Unwrap(game.result).value)) # {}

(***************************************************************************)
(* Properties of castling                                                  *)
(***************************************************************************)
\* a piece of the color on square a attacks square t, by the rules of chess
AttacksByRule(board, color, piece, a, t) ==
    LET Abs(x) == IF x < 0 THEN -x ELSE x
        Sign(x) == IF x < 0 THEN -1 ELSE IF x > 0 THEN 1 ELSE 0
        df == FileOf(t) - FileOf(a)
        dr == RankOf(t) - RankOf(a)
        steps == IF Abs(df) >= Abs(dr) THEN Abs(df) ELSE Abs(dr)
        free == \A k \in 1 .. (steps - 1) :
                    (a + k * (Sign(df) + 8 * Sign(dr))) \notin Occupancy(board)
        straight == a # t /\ (df = 0 \/ dr = 0)
        diagonal == a # t /\ Abs(df) = Abs(dr)
    IN  CASE piece = "Pawn" -> Abs(df) = 1 /\ dr = (IF color = "White" THEN 1 ELSE -1)
          [] piece = "Knight" -> {Abs(df), Abs(dr)} = {1, 2}
          [] piece = "King" -> steps = 1
          [] piece = "Rook" -> straight /\ free
          [] piece = "Bishop" -> diagonal /\ free
          [] piece = "Queen" -> (straight \/ diagonal) /\ free

\* some piece of the color attacks the square
AttackedByRule(board, color, t) ==
    \E p \in Pieces : \E a \in board[color][p] : AttacksByRule(board, color, p, a, t)

\* the castling moves in the buffer
CastlesGenerated == {r \in game.legal_moves : IsSome(CastleSide(r.move))}

\* the squares of the first or last rank between two files, both included
Between(rank, from, to) == {SquareFrom(rank, f) : f \in from .. to}

\* C17: a castling move is among the generated legal moves only if the side
\* to move holds the right of that side, every square between its king and
\* the rook of that side is empty, and the other side attacks neither the
\* square of the king nor the square it passes nor the square it goes to:
\* no generated move castles out of check, through an attacked square, into
\* check or over a piece.
C17_CastlingOnlyWhenFreeAndSafe ==
    game.generated =>
        \A r \in CastlesGenerated :
            LET state == game.state
                color == state.turn_to_move
                rank == IF color = "White" THEN 0 ELSE 7
                kingside == r.move.castle_kingside
            IN  /\ r.move.castle_kingside # r.move.castle_queenside
                /\ IF kingside THEN state.castle_rights[color].kingside
                   ELSE state.castle_rights[color].queenside
                /\ state.board[color]["King"] = {SquareFrom(rank, 4)}
                /\ r.move.origin = SquareFrom(rank, 4)
                /\ r.move.dest = SquareFrom(rank, IF kingside THEN 6 ELSE 2)
                /\ (IF kingside THEN Between(rank, 5, 6) ELSE Between(rank, 1, 3))
                       \cap Occupancy(state.board) = {}
                /\ \A t \in (IF kingside THEN Between(rank, 4, 6) ELSE Between(rank, 2, 4)) :
                       ~AttackedByRule(state.board, OpposingColor(color), t)

\* after a move of the game a castling move is generated for one side only:
\* the right of the other side is held as well
C17_Witness ==
    /\ game.generated
    /\ game.ply > 0
    /\ Cardinality(CastlesGenerated) = 1
    /\ game.state.castle_rights[game.state.turn_to_move].kingside
    /\ game.state.castle_rights[game.state.turn_to_move].queenside

(***************************************************************************)
(* ZobristHasher.  The words of the tables have HashBits bits; a hasher is *)
(* given by the seed of the generator that filled its tables.              *)
(***************************************************************************)
\* bits of a word of the tables
HashBits == 8

\* seeds of the generator: 0 .. MaxSeed
MaxSeed == 1

\* PieceIndex::index, of the pieces that stand on a board
PieceIndexOf(color, piece) ==
    (IF color = "White" THEN 0 ELSE 7)
        + (CHOOSE i \in DOMAIN PieceAll : PieceAll[i] = piece)

\* the n-th word a generator of the seed yields
NextWord(seed, n) == ((seed + 3) * (n + 1) * (n + 7) + 5 * n) % (2 ^ HashBits)

\* ZobristHasher::with
ZobristHasherWith(seed) ==
    [turn_hash |-> [c \in Colors |-> NextWord(seed, IF c = "White" THEN 0 ELSE 1)],
     piece_hash |-> [sq \in Squares |-> [c \in Colors |-> [p \in Pieces |->
                        NextWord(seed, 2 + 14 * sq + PieceIndexOf(c, p))]]]]

RECURSIVE XorOver(_, _)
\* hash ^= word, for the words of a set of slots
XorOver(word, slots) ==
    IF slots = {} THEN 0
    ELSE LET slot == CHOOSE x \in slots : TRUE
         IN  Xor(word[slot], XorOver(word, slots \ {slot}))

\* the loops over colors, pieces and the squares of each piece; the board of
\* Piece::None is empty
PlacementHash(hasher, board) ==
    LET slots == {<<sq, c, p>> \in Squares \X Colors \X Pieces : sq \in board[c][p]}
    IN  XorOver([slot \in slots |-> hasher.piece_hash[slot[1]][slot[2]][slot[3]]], slots)

\* a hasher that tells the moves of Black apart by their number
TurnHashWithMoveNumber(hasher, state) ==
    Xor(hasher.turn_hash[state.turn_to_move], state.clock.fullmove_number % 2)

\* `self.turn_hash[state.turn_to_move()]`
TurnHash(hasher, state) == hasher.turn_hash[state.turn_to_move]

\* ZobristHasher::hash
Hash(hasher, state) ==
    Xor(PlacementHash(hasher, state.board), TurnHash(hasher, state))

\* states of the same placement and side to move as the state: castling
\* rights lost, no en passant target, later clocks
Variations(state) ==
    {[state EXCEPT !.castle_rights = castle_rights,
                   !.en_passant_target = en_passant_target,
                   !.clock = clock] :
        castle_rights \in {state.castle_rights, [Black |-> NoRights, White |-> NoRights]},
        en_passant_target \in {state.en_passant_target, None},
        clock \in {state.clock,
                   [halfmove_clock |-> state.clock.halfmove_clock + 2,
                    fullmove_number |-> state.clock.fullmove_number + 1]}}

\* r3k2r/8/8/3pP3/8/8/8/R3K2R w KQkq d6 0 1
CastlesAndEnPassant ==
    WithTarget([BothCastles EXCEPT !.board["White"]["Pawn"] = {At("e", "5")},
                                   !.board["Black"]["Pawn"] = {At("d", "5")}],
               At("d", "6"))

\* the states that are hashed
HashedStates == StartPositions \cup {CastlesAndEnPassant}

\* the states a legal move leads to
Successors(state) == {r.state : r \in ComputeLegalMoves(state)}

InitHash ==
    /\ tables = AccessNew
    /\ TTIdle
    /\ MapIdle
    /\ SearchIdle
    /\ TreeIdle
    /\ uci = UciOff
    /\ \E seed \in 0 .. MaxSeed, state \in HashedStates :
          \E other \in Variations(state) \cup Successors(state) :
              game = [hasher |-> ZobristHasherWith(seed), state |-> state,
                      other |-> other, hashes |-> << >>]

\* hasher.hash(&state) for the two states, and for the first once more
HashStates ==
    /\ Len(game.hashes) < 3
    /\ game' = [game EXCEPT !.hashes =
                    Append(@, Hash(game.hasher,
                                   IF Len(game.hashes) = 1 THEN game.other
                                   ELSE game.state))]
    /\ UNCHANGED <<uci, offChess>>

NextHash == HashStates

SpecHash == InitHash /\ [][NextHash]_vars

\* the two states have the same placement and the same side to move
SamePlacement ==
    /\ game.state.board = game.other.board
    /\ game.state.turn_to_move = game.other.turn_to_move

\* C18: for one hasher, two states with the same piece boards and the same
\* side to move have the same hash, whatever their castling rights, en
\* passant targets and clocks are, and a state hashed twice has the same
\* hash both times.
C18_HashOfPlacementAndTurn ==
    /\ Len(game.hashes) >= 2 /\ SamePlacement => game.hashes[1] = game.hashes[2]
    /\ Len(game.hashes) = 3 => game.hashes[1] = game.hashes[3]

\* the states hashed differ in castling rights, en passant target and clocks
C18_Witness ==
    /\ Len(game.hashes) = 3
    /\ SamePlacement
    /\ game.state.castle_rights # game.other.castle_rights
    /\ game.state.en_passant_target # game.other.en_passant_target
    /\ game.state.clock.fullmove_number # game.other.clock.fullmove_number
    /\ game.state.clock.halfmove_clock # game.other.clock.halfmove_clock

(***************************************************************************)
(* Properties of the boards of a game                                      *)
(***************************************************************************)
\* the boards of the pieces: PieceIndex of a color and a piece
PieceBoards == Colors \X Pieces

\* the invariants of a Board
WellFormed(board) ==
    /\ \A a, b \in PieceBoards : a # b => board[a[1]][a[2]] \cap board[b[1]][b[2]] = {}
    /\ \A c \in Colors : ColoredOccupancy(board, c) = UNION {board[c][p] : p \in Pieces}
    /\ Occupancy(board) = ColoredOccupancy(board, "White") \cup ColoredOccupancy(board, "Black")

\* C19: in the state of a game played with legal moves from the standard
\* opening position or from a position of such a game, and in every state a
\* legal move of it leads to, the twelve boards of the pieces are pairwise
\* disjoint, the occupancy of a color is the union of the boards of its
\* pieces, and the occupancy is the union of the occupancies of the colors.
C19_BoardsDisjoint ==
    /\ WellFormed(game.state.board)
    /\ \A r \in game.legal_moves : WellFormed(r.state.board)

\* two moves after the standard opening position a capture is among the
\* legal moves
C19_Witness ==
    /\ game.generated
    /\ game.ply = 2
    /\ Cardinality(Occupancy(game.state.board)) = 32
    /\ \E r \in game.legal_moves :
          /\ IsSome(r.move.capture)
          /\ Cardinality(Occupancy(r.state.board)) = 31

(***************************************************************************)
(* Searcher::perft.  The loop over the moves of the root is taken one move *)
(* at a time; what lies below a move is counted by the recursion.          *)
(***************************************************************************)
\* the depth of the perft test
PerftDepth == 3

\* rnbq1k1r/pp1Pbppp/2p5/8/2B5/8/PPP1NnPP/RNBQK2R w KQ - 1 8
PerftPosition ==
    [StateOf({<<"Black", "Rook", At("a", "8")>>, <<"Black", "Knight", At("b", "8")>>,
              <<"Black", "Bishop", At("c", "8")>>, <<"Black", "Queen", At("d", "8")>>,
              <<"Black", "King", At("f", "8")>>, <<"Black", "Rook", At("h", "8")>>,
              <<"Black", "Pawn", At("a", "7")>>, <<"Black", "Pawn", At("b", "7")>>,
              <<"White", "Pawn", At("d", "7")>>, <<"Black", "Bishop", At("e", "7")>>,
              <<"Black", "Pawn", At("f", "7")>>, <<"Black", "Pawn", At("g", "7")>>,
              <<"Black", "Pawn", At("h", "7")>>, <<"Black", "Pawn", At("c", "6")>>,
              <<"White", "Bishop", At("c", "4")>>,
              <<"White", "Pawn", At("a", "2")>>, <<"White", "Pawn", At("b", "2")>>,
              <<"White", "Pawn", At("c", "2")>>, <<"White", "Knight", At("e", "2")>>,
              <<"Black", "Knight", At("f", "2")>>, <<"White", "Pawn", At("g", "2")>>,
              <<"White", "Pawn", At("h", "2")>>,
              <<"White", "Rook", At("a", "1")>>, <<"White", "Knight", At("b", "1")>>,
              <<"White", "Bishop", At("c", "1")>>, <<"White", "Queen", At("d", "1")>>,
              <<"White", "King", At("e", "1")>>, <<"White", "Rook", At("h", "1")>>},
             "White", [kingside |-> TRUE, queenside |-> TRUE], NoRights)
        EXCEPT !.clock = [halfmove_clock |-> 1, fullmove_number |-> 8]]

PerftStates == StartPositions \cup {PerftPosition}

RECURSIVE PerftRecursive(_, _)

\* a perft that counts the moves above the last level as well
CountWithInner(legal_moves, remaining_buffers) ==
    IF remaining_buffers = 0 THEN Cardinality(legal_moves)
    ELSE Cardinality(legal_moves)
            + SumOver([r \in legal_moves |-> PerftRecursive(r.state, remaining_buffers)],
                      legal_moves)

\* perft_recursive with the buffer filled: the length of the buffer if it is
\* the last one, else the sum of the counts below its moves
CountBelow(legal_moves, remaining_buffers) ==
    IF remaining_buffers = 0 THEN Cardinality(legal_moves)
    ELSE SumOver([r \in legal_moves |-> PerftRecursive(r.state, remaining_buffers)],
                 legal_moves)

\* perft_recursive: nothing is counted without a buffer
PerftRecursive(state, buffers) ==
    IF buffers = 0 THEN 0
    ELSE CountBelow(ComputeLegalMoves(state), buffers - 1)

InitPerft ==
    /\ tables = AccessNew
    /\ TTIdle
    /\ MapIdle
    /\ SearchIdle
    /\ TreeIdle
    /\ uci = UciOff
    /\ \E state \in PerftStates, depth \in 1 .. PerftDepth :
          game = [pc |-> "start", state |-> state, depth |-> depth, pending |-> {},
                  count |-> 0]

\* perft calls perft_recursive, which fills the first buffer
PerftStart ==
    /\ game.pc = "start"
    /\ game' = [game EXCEPT !.pc = "loop", !.pending = ComputeLegalMoves(game.state)]
    /\ UNCHANGED <<uci, offChess>>

\* the last buffer: its length is the count
PerftCountsBuffer ==
    /\ game.pc = "loop"
    /\ game.depth = 1
    /\ game' = [game EXCEPT !.pc = "done", !.pending = {},
                            !.count = Cardinality(game.pending)]
    /\ UNCHANGED <<uci, offChess>>

\* one turn of the loop over the moves of the root
PerftVisit ==
    /\ game.pc = "loop"
    /\ game.depth > 1
    /\ game.pending # {}
    /\ LET result == CHOOSE r \in game.pending : TRUE
       IN  game' = [game EXCEPT !.pending = @ \ {result},
                                !.count = @ + PerftRecursive(result.state, game.depth - 1)]
    /\ UNCHANGED <<uci, offChess>>

\* the loop has ended
PerftReturns ==
    /\ game.pc = "loop"
    /\ game.depth > 1
    /\ game.pending = {}
    /\ game' = [game EXCEPT !.pc = "done"]
    /\ UNCHANGED <<uci, offChess>>

NextPerft ==
    \/ PerftStart
    \/ PerftCountsBuffer
    \/ PerftVisit
    \/ PerftReturns

SpecPerft == InitPerft /\ [][NextPerft]_vars

RECURSIVE Sequences(_, _)
\* the number of sequences of d legal moves, one after the other, from a state
Sequences(state, d) ==
    IF d = 0 THEN 1
    ELSE LET legal_moves == ComputeLegalMoves(state)
         IN  SumOver([r \in legal_moves |-> Sequences(r.state, d - 1)], legal_moves)

\* C20: perft(state, d) with d >= 1 returns the number of sequences of d
\* successive legal moves from the state; from the standard opening position
\* it returns 20, 400 and 8902 for the depths 1, 2 and 3, and from
\* rnbq1k1r/pp1Pbppp/2p5/8/2B5/8/PPP1NnPP/RNBQK2R w KQ - 1 8 it returns
\* 62379 for the depth 3.
C20_PerftCountsSequences ==
    game.pc = "done" =>
        /\ game.count = Sequences(game.state, game.depth)
        /\ game.state = DefaultState => game.count = <<20, 400, 8902>>[game.depth]
        /\ game.state = PerftPosition /\ game.depth = 3 => game.count = 62379

\* perft has returned for the position of the test at depth 3
C20_Witness ==
    /\ game.pc = "done"
    /\ game.state = PerftPosition
    /\ game.depth = 3
    /\ game.count = 62379

(***************************************************************************)
(* quiescence_search.  The recursion is kept as its stack of calls: a      *)
(* frame is a call with its state, its depth, its window and the place it  *)
(* is at: "enter" before the moves are generated, "moves" in the loop over *)
(* the sorted moves with the captures left in todo, "return" with its      *)
(* value.  The sort is stable on a buffer whose order is not modelled:     *)
(* any of the captures left with the least key is the next one.            *)
(***************************************************************************)
\* 3r2k1/8/8/3p4/4P3/8/8/3RK3 w - - 0 1: pawn and rooks exchange on d5
Exchanges ==
    StateOf({<<"White", "King", At("e", "1")>>, <<"White", "Rook", At("d", "1")>>,
             <<"White", "Pawn", At("e", "4")>>, <<"Black", "King", At("g", "8")>>,
             <<"Black", "Rook", At("d", "8")>>, <<"Black", "Pawn", At("d", "5")>>},
            "White", NoRights, NoRights)

\* the states quiescence_search is called on
QuiescencePositions ==
    {Exchanges, Promotion, PinnedKnight, EnPassantPin, WhiteTakesEnPassant,
     BlackTakesEnPassant, BackRankMate, Stalemate}

\* the windows it is called with
QuiescenceWindows ==
    {<<NEG_INF, POS_INF>>, <<-ONE_PAWN, ONE_PAWN>>, <<EVEN, 5 * ONE_PAWN>>,
     <<-5 * ONE_PAWN, EVEN>>}

\* variant: a promotion counts as a capture
IsCaptureOrPromotion(mv) == IsSome(mv.capture) \/ IsSome(mv.promotion)

\* Move::is_capture
IsCapture(mv) == IsSome(mv.capture)

\* the key of sort_by_cached_key: `-(estimation * 10.0) as i32`
CaptureKey(mv) ==
    LET moving_piece_value == PIECE_PAWN_WORTHS[mv.piece]
        captured_piece_value ==
            IF IsSome(mv.capture) THEN PIECE_PAWN_WORTHS[Unwrap(mv.capture)] ELSE 0
    IN  -Trunc((captured_piece_value - moving_piece_value) * 10, ONE_PAWN)

\* the MoveResults the loop can visit next
NextCaptures(todo) ==
    {r \in todo : \A q \in todo : CaptureKey(r.move) <= CaptureKey(q.move)}

Call(state, depth, alpha, beta) ==
    [state |-> state, depth |-> depth, alpha |-> alpha, beta |-> beta,
     pc |-> "enter", todo |-> {}, value |-> 0]

Returning(frame, value) == [frame EXCEPT !.pc = "return", !.value = value, !.todo = {}]

\* the call up to its loop: the moves are generated, the state is evaluated
\* and the window is narrowed
Entered(frame, legal_moves, normal_eval) ==
    IF legal_moves = {} THEN Returning(frame, normal_eval)
    ELSE IF \A r \in legal_moves : ~IsCapture(r.move) THEN Returning(frame, normal_eval)
    ELSE IF normal_eval >= frame.beta THEN Returning(frame, frame.beta)
    ELSE [frame EXCEPT !.alpha = IF @ < normal_eval THEN normal_eval ELSE @,
                       !.pc = "moves",
                       !.todo = {r \in legal_moves : IsCapture(r.move)}]

\* the caller takes the value of the recursive call
Resumed(frame, value) ==
    LET evaluation == -value
    IN  IF evaluation >= frame.beta THEN Returning(frame, frame.beta)
        ELSE [frame EXCEPT !.alpha = IF evaluation > @ THEN evaluation ELSE @]

Top == game.stack[Len(game.stack)]

Below == SubSeq(game.stack, 1, Len(game.stack) - 1)

InitQuiescence ==
    /\ tables = AccessNew
    /\ TTIdle
    /\ MapIdle
    /\ SearchIdle
    /\ TreeIdle
    /\ uci = UciOff
    /\ \E state \in QuiescencePositions, window \in QuiescenceWindows :
          game = [stack |-> <<Call(state, 0, window[1], window[2])>>,
                  root |-> state, deepest |-> 1, result |-> None]

QuiescenceEnter ==
    /\ game.stack # << >>
    /\ Top.pc = "enter"
    /\ game' = [game EXCEPT !.stack[Len(game.stack)] =
                    Entered(Top, ComputeLegalMoves(Top.state),
                            Evaluate(Top.state, Top.state.turn_to_move))]
    /\ UNCHANGED <<uci, offChess>>

\* `-Self::quiescence_search(new_state, evaluator, depth + 1, -beta, -alpha)`
QuiescenceDescend(r) ==
    /\ game.stack # << >>
    /\ Top.pc = "moves"
    /\ r \in NextCaptures(Top.todo)
    /\ game' = [game EXCEPT !.stack =
                    Append([@ EXCEPT ![Len(game.stack)].todo = Top.todo \ {r}],
                           Call(r.state, Top.depth + 1, -Top.beta, -Top.alpha)),
                            !.deepest = Max(@, Len(game.stack) + 1)]
    /\ UNCHANGED <<uci, offChess>>

\* the loop is over: `Ok(alpha)`
QuiescenceLoopEnds ==
    /\ game.stack # << >>
    /\ Top.pc = "moves"
    /\ Top.todo = {}
    /\ game' = [game EXCEPT !.stack[Len(game.stack)] = Returning(Top, Top.alpha)]
    /\ UNCHANGED <<uci, offChess>>

\* the call returns to its caller
QuiescenceReturn ==
    /\ game.stack # << >>
    /\ Top.pc = "return"
    /\ game' = IF Len(game.stack) = 1
               THEN [game EXCEPT !.stack = << >>, !.result = Some(Top.value)]
               ELSE [game EXCEPT !.stack =
                        [Below EXCEPT ![Len(Below)] = Resumed(@, Top.value)]]
    /\ UNCHANGED <<uci, offChess>>

NextQuiescence ==
    \/ QuiescenceEnter
    \/ \E r \in (IF game.stack # << >> THEN Top.todo ELSE {}) : QuiescenceDescend(r)
    \/ QuiescenceLoopEnds
    \/ QuiescenceReturn

\* the call runs on: it is not cancelled and waits for nothing
SpecQuiescence ==
    InitQuiescence /\ [][NextQuiescence]_vars /\ WF_vars(NextQuiescence)

\* the pieces on the board of a state
PiecesOn(state) == Cardinality(Occupancy(state.board))

\* C30: quiescence_search terminates.  Every recursive call is on the
\* successor of a capture, which has one piece less than the state of its
\* caller; the number of calls under way is at most the number of pieces of
\* the state of the first call, and the first call returns.
C30_QuiescenceTerminates ==
    /\ [](/\ \A i \in 1 .. (Len(game.stack) - 1) :
               /\ PiecesOn(game.stack[i + 1].state) = PiecesOn(game.stack[i].state) - 1
               /\ game.stack[i + 1].depth = game.stack[i].depth + 1
               /\ \E r \in ComputeLegalMoves(game.stack[i].state) :
                     IsSome(r.move.capture) /\ r.state = game.stack[i + 1].state
          /\ Len(game.stack) <= PiecesOn(game.root)
          /\ game.deepest <= PiecesOn(game.root))
    /\ <>(game.stack = << >> /\ IsSome(game.result))

\* the first call has returned after a recursion three captures deep
C30_Witness ==
    /\ game.stack = << >>
    /\ IsSome(game.result)
    /\ game.deepest = 4

====
